---- MODULE Spec2Model ----
(***************************************************************************)
(* A model of the PRUDP server of nex-go: PRUDPServer.Send and sendPacket  *)
(* (fragmentation of an outgoing payload), BindPRUDPEndPoint, the receive  *)
(* loop of listenAndServeUDP, the inbound path handleSocketMessage /       *)
(* processPacket, the reads of ByteStreamIn, Copy / Equals of the          *)
(* structures ResultRange and RVConnectionData, and the types QUUID,       *)
(* Buffer and DateTime.  Send and BindPRUDPEndPoint are also modelled as   *)
(* called by several goroutines at once.                                   *)
(***************************************************************************)
EXTENDS Integers, Sequences, FiniteSets, TLC

(***************************************************************************)
(* Bounds of the model                                                     *)
(***************************************************************************)
MaxLen == 5                  \* longest payload handed to Send
MaxFragmentSize == 2         \* SetFragmentSize is called with 0..MaxFragmentSize
MaxSubstream == 1            \* substream ids 0..MaxSubstream
MaxStreamID == 2             \* stream ids of endpoints and packets: 1..MaxStreamID
MaxEndPoints == 3            \* endpoint objects handed to BindPRUDPEndPoint
MaxPortExcess == 2           \* source ports reach LitePortLimit + MaxPortExcess
MaxTypeExcess == 1           \* stream types reach StreamTypeRelay + MaxTypeExcess
MaxPackets == 2              \* packets decoded from one datagram
MaxDatagramLen == 2          \* length of an inbound datagram
MaxReadLen == 2              \* length of a datagram in the receive loop
MaxHandlers == 2             \* handlers of the receive loop running at once
MaxOtherSends == 1           \* packets sent for another connection meanwhile
MaxStreamLen == 8            \* length of the data of a ByteStreamIn
MaxStructureVersion == 1     \* structure versions 0..MaxStructureVersion
MaxFieldValue == 1           \* numbers held by the fields of a structure
MaxUUIDVariant == 1          \* byte patterns 0..MaxUUIDVariant of a UUID section
MaxBufferLen == 2            \* longest Buffer written
MaxBinders == 2              \* goroutines calling BindPRUDPEndPoint at once
MaxYear == 2                 \* years 0..MaxYear passed to DateTime.Make
MaxFieldExcess == 1          \* a component passed to Make exceeds its width by
                             \* at most this

(***************************************************************************)
(* Program constants                                                       *)
(***************************************************************************)
DefaultFragmentSize == 1300  \* NewPRUDPServer
FragmentIDMod == 256         \* var fragmentID uint8
SequenceIDMod == 65536       \* sequence ids are uint16
StreamTypeRelay == 11        \* constants.StreamTypeRelay
LitePortLimit == 31          \* "PRUDPLite packets can use port numbers 0-31"
LegacyPortLimit == 15        \* "PRUDPv0 and PRUDPv1 can use port numbers 0-15"
LiteMagic == 128             \* 0x80
V1Magic == <<234, 208>>      \* 0xEA 0xD0
LiteVersion == 2             \* packetCopy.Version() != 2

None == "none"

(***************************************************************************)
(* Helpers on sequences                                                    *)
(***************************************************************************)
SeqsUpTo(S, n) == UNION {[1..k -> S] : k \in 0..n}

\* data[:n]
Take(s, n) == SubSeq(s, 1, n)

\* data[n:]
Drop(s, n) == SubSeq(s, n + 1, Len(s))

RECURSIVE Concat(_)
Concat(ss) == IF ss = <<>> THEN <<>> ELSE Head(ss) \o Concat(Tail(ss))

(***************************************************************************)
(* Packets handed to Send                                                  *)
(***************************************************************************)
PacketTypes == {"SYN", "DATA", "PING"}
Flags == {"Ack", "Reliable", "NeedsAck", "MultiAck"}
Versions == 0..2
Substreams == 0..MaxSubstream
\* one payload per length, every byte different from its neighbours
PayloadOfLen(n) == [j \in 1..n |-> j % 256]
Payloads == {PayloadOfLen(n) : n \in 0..MaxLen}

\* the sequence id the caller of Send has set on the packet
CallerSequenceID == 7

\* a packet as the caller of Send built it; crypto lists the transformations
\* the payload has gone through
NewPacket(ptype, flags, version, substreamID, payload) ==
    [ptype |-> ptype, flags |-> flags, version |-> version,
     substreamID |-> substreamID, payload |-> payload, fragmentID |-> 0,
     sequenceID |-> CallerSequenceID, crypto |-> <<>>, sendCount |-> 0, sessionID |-> 0,
     signature |-> <<>>, sentAt |-> 0]

HasFlag(p, f) == f \in p.flags

(***************************************************************************)
(* Packets decoded from inbound datagrams                                  *)
(***************************************************************************)
StreamIDs == 1..MaxStreamID
StreamTypes == (StreamTypeRelay - 1)..(StreamTypeRelay + MaxTypeExcess)
\* the source port numbers around the two limits
Ports == {0, LegacyPortLimit, LegacyPortLimit + 1, LitePortLimit}
            \cup (LitePortLimit + 1)..(LitePortLimit + MaxPortExcess)

\* the packets of one dialect: destination stream id and type, source
\* stream type and source port number
InPackets(dialect) ==
    [dialect : {dialect}, destStreamID : StreamIDs, destStreamType : StreamTypes,
     sourceStreamType : StreamTypes, sourcePort : Ports]

(***************************************************************************)
(* Handlers started by the UDP receive loop                                *)
(***************************************************************************)
\* a byte slice: backed by the shared receive buffer or by an array of its own
NewSlice(backing, length, bytes) ==
    [backing |-> backing, length |-> length, bytes |-> bytes]

\* a running handleSocketMessage: its packetData argument and, for reference,
\* the datagram that was received when it was started
NewHandler(slice, datagram) == [packetData |-> slice, received |-> datagram]

(***************************************************************************)
(* Structures                                                              *)
(***************************************************************************)
\* a ResultRange with its fields set
ResultRangeOf(version, offset, length) ==
    [structureVersion |-> version, Offset |-> offset, Length |-> length]

\* an RVConnectionData with its fields set; Time is <<>> for nil and
\* <<value>> for a DateTime
RVConnectionDataOf(version, url, protocols, protocolsURL, time) ==
    [structureVersion |-> version, StationURL |-> url,
     SpecialProtocols |-> protocols, StationURLSpecialProtocols |-> protocolsURL,
     Time |-> time]

VARIABLES
    FragmentSize,       \* ps.FragmentSize
    sendPc,             \* position of the Send call: idle, loop, sleep, done, panic
    sendPacketArg,      \* the packet object passed to Send (rewritten per fragment)
    data,               \* local data of Send: the bytes not yet emitted
    fragments,          \* local fragments of Send
    fragmentID,         \* local fragmentID of Send (uint8)
    i,                  \* loop counter of Send
    emitted,            \* packets handed to sendPacket, in order
    sleeps,             \* pacing delays performed by the Send
    origPayload,        \* payload of the packet when Send was called
    slidingWindows,     \* per substream: last sequence id issued
    unreliableCounter,  \* connection.outgoingUnreliableSequenceIDCounter
    pingCounter,        \* connection.outgoingPingSequenceIDCounter
    scheduled,          \* packets registered with the timeout manager
    wire,               \* packets handed to sendRaw, in order
    calls,              \* the calls of SchedulePacketTimeout and sendRaw that
                        \* sendPacket made, in their order
    failing,            \* the algorithms of the sliding windows that return
                        \* an error: a subset of Compress, Encrypt
    logged              \* the errors sendPacket has logged

VARIABLES
    udpSocket,          \* ps.udpSocket != nil
    websocketServer,    \* ps.websocketServer != nil
    Endpoints,          \* ps.Endpoints: a map from stream id to endpoint
    endpointServer,     \* per endpoint object: endpoint.Server != nil
    bindCalled,         \* the endpoints BindPRUDPEndPoint has been called with
    firstBound,         \* map: stream id -> the first endpoint passed to Bind with it
    hPc,                \* position of the datagram handler
    packetData,         \* the handler's private copy of the datagram
    hDialect,           \* the decoder handleSocketMessage chose
    hCount,             \* number of packets decoded from the datagram
    hIndex,             \* number of packets given to processPacket so far
    hPacket,            \* the packet last given to processPacket
    hErr,               \* the error of the last processPacket, "nil" for none
    hEndpoint,          \* the endpoint processPacket looked up for hPacket
    delivered,          \* indexes of the packets passed to endpoint.processPacket
    sockets             \* SocketConnections created for this datagram

VARIABLES
    loopPc,             \* position of ListenUDP: serving, or panic after an error
    buffer,             \* the buffer of listenAndServeUDP shared by all reads
    handlers,           \* the handleSocketMessage goroutines still running
    rawWrites,          \* the transports sendRaw has written to
    errorLog            \* the errors sendRaw has logged

listenVars == <<loopPc, buffer, handlers, rawWrites, errorLog>>

VARIABLES
    otherWire           \* per packet a Send for another connection handed to
                        \* sendRaw: was the first Send in its pacing delay?

otherVars == <<otherWire>>

VARIABLES
    streamPc,           \* the ByteStreamIn: none, open, or panic
    streamData,         \* bsi.Bytes()
    byteOffset,         \* bsi.ByteOffset()
    readCall,           \* the method of the last read
    readRequest,        \* number of bytes the last read asked for
    readResult,         \* the bytes the last read returned
    readErr             \* the error the last read returned, "nil" for none

VARIABLES
    structPc,           \* the last call on a structure: none, Equals, Copy
    structThis,         \* the receiver of the call
    structOther,        \* the structure passed to Equals, or the copy made
    structResult        \* what Equals returned (for Copy: this.Equals(copy))

structVars == <<structPc, structThis, structOther, structResult>>

VARIABLES
    quuidPc,            \* the last call on the QUUID: none, FromString,
                        \* GetStringValue
    uuidArg,            \* the string passed to FromString
    quuidData,          \* qu.Data
    quuidErr,           \* the error FromString returned, "nil" for none
    quuidString         \* what GetStringValue returned

quuidVars == <<quuidPc, uuidArg, quuidData, quuidErr, quuidString>>

VARIABLES
    bufferPc,           \* the last call on the Buffer: none, WriteTo, open,
                        \* ExtractFrom
    bufferArg,          \* the Buffer that was written
    writable,           \* the bytes WriteTo wrote
    cut,                \* bytes of the written data missing from the readable
    readable,           \* the data of the readable
    readableOffset,     \* the offset of the readable
    destBefore,         \* the destination Buffer before ExtractFrom
    dest,               \* the destination Buffer
    extractErr          \* the error ExtractFrom returned, "nil" for none

bufferVars == <<bufferPc, bufferArg, writable, cut, readable, readableOffset,
                destBefore, dest, extractErr>>

VARIABLES
    dateTimePc,         \* the last call on the DateTime: none, Make, read
    made,               \* what Make was called with: <<second, minute, hour,
                        \* day, month, year>>
    dateTimeValue,      \* dt.value
    readBack            \* what Second(), Minute(), Hour(), Day(), Month() and
                        \* Year() returned

dateTimeVars == <<dateTimePc, made, dateTimeValue, readBack>>

VARIABLES
    secondPc,           \* position of a second Send call on the same connection
    secondPacket,       \* the packet object passed to the second Send
    secondData,         \* local data of the second Send
    secondFragments,    \* local fragments of the second Send
    secondFragmentID,   \* local fragmentID of the second Send
    secondI,            \* loop counter of the second Send
    secondSent          \* the positions in wire of the packets of the second Send

secondVars == <<secondPc, secondPacket, secondData, secondFragments,
                secondFragmentID, secondI, secondSent>>

VARIABLES
    bindPc,             \* per goroutine in BindPRUDPEndPoint: idle, checked
                        \* (Has returned false), bound, rejected
    bindArg             \* per goroutine: the endpoint it was called with

binderVars == <<bindPc, bindArg>>

\* the state of the types and of the concurrent callers modelled below
typeVars == <<quuidVars, bufferVars, dateTimeVars, binderVars, secondVars>>

streamVars == <<streamPc, streamData, byteOffset, readCall, readRequest, readResult,
               readErr>>

dispatchVars == <<udpSocket, websocketServer, Endpoints, endpointServer, bindCalled,
                  firstBound, hPc, packetData, hDialect, hCount, hIndex, hPacket,
                  hErr, hEndpoint, delivered, sockets>>

sendVars == <<FragmentSize, sendPc, sendPacketArg, data, fragments, fragmentID, i,
              emitted, sleeps, origPayload, slidingWindows, unreliableCounter,
              pingCounter, scheduled, wire, calls, failing, logged>>

\* what the actions of Send and of the dispatch path leave alone
notSendVars ==
    <<dispatchVars, listenVars, otherVars, streamVars, structVars, typeVars>>
notDispatchVars ==
    <<sendVars, listenVars, otherVars, streamVars, structVars, typeVars>>
notStreamVars ==
    <<sendVars, dispatchVars, listenVars, otherVars, structVars, typeVars>>
notStructVars ==
    <<sendVars, dispatchVars, listenVars, otherVars, streamVars, typeVars>>
oldVars ==
    <<sendVars, dispatchVars, listenVars, otherVars, streamVars, structVars>>
notQUUIDVars == <<oldVars, bufferVars, dateTimeVars, binderVars, secondVars>>
notBufferVars == <<oldVars, quuidVars, dateTimeVars, binderVars, secondVars>>
notDateTimeVars == <<oldVars, quuidVars, bufferVars, binderVars, secondVars>>
\* what the second Send leaves alone: all but its locals and the state of
\* the connection and of the transport
notSecondVars ==
    <<dispatchVars, listenVars, otherVars, streamVars, structVars, quuidVars,
      bufferVars, dateTimeVars, binderVars, FragmentSize, sendPc, sendPacketArg,
      data, fragments, fragmentID, i, emitted, sleeps, origPayload, failing>>
notBinderVars ==
    <<sendVars, listenVars, otherVars, streamVars, structVars, quuidVars,
      bufferVars, dateTimeVars, secondVars, udpSocket, websocketServer, bindCalled,
      firstBound, hPc, packetData, hDialect, hCount, hIndex, hPacket, hErr,
      hEndpoint, delivered, sockets>>
notListenVars == <<sendVars, otherVars, streamVars, structVars, typeVars, Endpoints,
                   endpointServer, bindCalled, firstBound,
                   packetData, hDialect, hCount, hIndex, hPacket, hErr, hEndpoint,
                   delivered, sockets>>

(***************************************************************************)
(* PRUDPServer.sendPacket                                                  *)
(***************************************************************************)
\* Counter.Next / SlidingWindow.NextOutgoingSequenceID: increment, then return
NextSequenceID(c) == (c + 1) % SequenceIDMod

NoAck(p) == ~HasFlag(p, "Ack") /\ ~HasFlag(p, "MultiAck")

\* which counter the sequence id of the copy is drawn from
SequenceSourceAckToo(p) ==
    IF HasFlag(p, "Reliable") THEN "window"
    ELSE IF ~NoAck(p) THEN "keep"
    ELSE IF p.ptype = "DATA" THEN "unreliable"
    ELSE IF p.ptype = "PING" THEN "ping"
    ELSE "zero"
SequenceSource(p) ==
    IF ~NoAck(p) THEN "keep"
    ELSE IF HasFlag(p, "Reliable") THEN "window"
    ELSE IF p.ptype = "DATA" THEN "unreliable"
    ELSE IF p.ptype = "PING" THEN "ping"
    ELSE "zero"

\* the sequence id sendPacket gives the copy
SequenceIDForFirstWindow(p) ==
    CASE SequenceSource(p) = "keep"       -> p.sequenceID
      [] SequenceSource(p) = "window"     -> NextSequenceID(slidingWindows[0])
      [] SequenceSource(p) = "unreliable" -> NextSequenceID(unreliableCounter)
      [] SequenceSource(p) = "ping"       -> NextSequenceID(pingCounter)
      [] OTHER                            -> 0
SequenceIDFor(p) ==
    CASE SequenceSource(p) = "keep"       -> p.sequenceID
      [] SequenceSource(p) = "window"     ->
                                NextSequenceID(slidingWindows[p.substreamID])
      [] SequenceSource(p) = "unreliable" -> NextSequenceID(unreliableCounter)
      [] SequenceSource(p) = "ping"       -> NextSequenceID(pingCounter)
      [] OTHER                            -> 0

\* slidingWindow.streamSettings.CompressionAlgorithm.Compress and
\* EncryptionAlgorithm.Encrypt of the sliding window of a substream, and
\* packetCopy.processUnreliableCrypto, applied to a payload that has gone
\* through the transformations in form
Compress(window, form) == Append(form, <<"Compress", window>>)
Encrypt(window, form) == Append(form, <<"Encrypt", window>>)
processUnreliableCrypto(form) == Append(form, <<"UnreliableCrypto">>)

\* what an algorithm returns beside its error: something that is no
\* transformation of the payload it was given
FailedResult(step, window) == <<<<step \o " failed", window>>>>

\* compressedPayload, err := ...Compress(payload) and
\* encryptedPayload, err := ...Encrypt(compressedPayload): the error is
\* logged and the value returned is used
CompressResult(window, form) ==
    IF "Compress" \in failing THEN FailedResult("Compress", window)
                              ELSE Compress(window, form)
EncryptResult(window, form) ==
    IF "Encrypt" \in failing THEN FailedResult("Encrypt", window)
                             ELSE Encrypt(window, form)

\* the transformations of the payload of the copy
PayloadCryptoEncryptFirst(p) ==
    IF p.ptype = "DATA" /\ NoAck(p)
    THEN IF HasFlag(p, "Reliable")
         THEN CompressResult(p.substreamID, EncryptResult(p.substreamID, p.crypto))
         ELSE IF p.version # LiteVersion THEN processUnreliableCrypto(p.crypto)
         ELSE p.crypto
    ELSE p.crypto
PayloadCryptoKeepOnError(p) ==
    IF p.ptype = "DATA" /\ NoAck(p)
    THEN IF HasFlag(p, "Reliable")
         THEN IF failing # {} THEN p.crypto
              ELSE Encrypt(p.substreamID, Compress(p.substreamID, p.crypto))
         ELSE IF p.version # LiteVersion THEN processUnreliableCrypto(p.crypto)
         ELSE p.crypto
    ELSE p.crypto
PayloadCrypto(p) ==
    IF p.ptype = "DATA" /\ NoAck(p)
    THEN IF HasFlag(p, "Reliable")
         THEN EncryptResult(p.substreamID, CompressResult(p.substreamID, p.crypto))
         ELSE IF p.version # LiteVersion THEN processUnreliableCrypto(p.crypto)
         ELSE p.crypto
    ELSE p.crypto

\* logger.Error(err.Error()) after Compress and after Encrypt
PayloadErrors(p) ==
    IF p.ptype = "DATA" /\ NoAck(p) /\ HasFlag(p, "Reliable")
    THEN (IF "Compress" \in failing THEN <<"Compress">> ELSE <<>>)
         \o (IF "Encrypt" \in failing THEN <<"Encrypt">> ELSE <<>>)
    ELSE <<>>

\* connection.ServerSessionID
ServerSessionID == 1

\* time.Now(): the clock counts the packets handed to sendRaw
Now == Len(wire) + 1

\* packetCopy.calculateSignature(...): a function of the state the packet is
\* in when it is called
calculateSignature(p) ==
    <<p.sequenceID, p.sessionID, p.payload, p.crypto, p.sendCount, p.sentAt>>

\* the packet sendPacket works on after each of its steps, in their order
WithSequenceID(p) == [p EXCEPT !.sequenceID = SequenceIDFor(p)]
WithSessionID(p) == [WithSequenceID(p) EXCEPT !.sessionID = ServerSessionID]
WithPayload(p) == [WithSessionID(p) EXCEPT !.crypto = PayloadCrypto(p)]
WithSignature(p) ==
    [WithPayload(p) EXCEPT !.signature = calculateSignature(WithPayload(p))]

\* the packet as it is handed to sendRaw
PacketCopy(p) ==
    [WithSignature(p) EXCEPT !.sendCount = p.sendCount + 1, !.sentAt = Now]

\* packet.Copy(): a packet object of its own with the same fields
Copy(p) == <<"own", p>>

\* packetCopy := packet.Copy()
packetCopySamePointer(p) == <<"shared", p>>
packetCopy(p) == Copy(p)

NeedsTimeout(p) == HasFlag(p, "Reliable") /\ HasFlag(p, "NeedsAck")

\* the end of sendPacket for the k-th packet: SchedulePacketTimeout on the
\* timeout manager of a sliding window, if the packet needs it, and sendRaw
sendPacketCallsRawFirst(p, k) ==
    <<<<"sendRaw", k>>>>
    \o (IF NeedsTimeout(p)
        THEN <<<<"SchedulePacketTimeout", k, p.substreamID>>>> ELSE <<>>)
sendPacketCalls(p, k) ==
    (IF NeedsTimeout(p)
     THEN <<<<"SchedulePacketTimeout", k, p.substreamID>>>> ELSE <<>>)
    \o <<<<"sendRaw", k>>>>

\* what sendPacket does to the connection, the timeout manager and the
\* transport
sendPacketOnConnection(p) ==
    /\ slidingWindows' =
          IF SequenceSource(p) = "window"
          THEN [slidingWindows EXCEPT ![p.substreamID] = NextSequenceID(@)]
          ELSE slidingWindows
    /\ unreliableCounter' =
          IF SequenceSource(p) = "unreliable"
          THEN NextSequenceID(unreliableCounter) ELSE unreliableCounter
    /\ pingCounter' =
          IF SequenceSource(p) = "ping"
          THEN NextSequenceID(pingCounter) ELSE pingCounter
    /\ scheduled' =
          IF NeedsTimeout(p)
          THEN Append(scheduled, <<packetCopy(p)[1], PacketCopy(p)>>)
          ELSE scheduled
    /\ wire' = Append(wire, PacketCopy(p))
    /\ calls' = calls \o sendPacketCalls(p, Len(wire) + 1)
    /\ logged' = logged \o PayloadErrors(p)

\* sendPacket changes the object it works on: the caller's packet object
\* holds p afterwards unless that object is the one worked on.  The timeout
\* manager keeps the object worked on, sendRaw gets its bytes.
sendPacket(p) ==
    /\ sendPacketArg' = IF packetCopy(p)[1] = "shared" THEN PacketCopy(p) ELSE p
    /\ sendPacketOnConnection(p)

(***************************************************************************)
(* PRUDPServer.SetFragmentSize and PRUDPServer.Send                        *)
(***************************************************************************)
\* fragments := int(len(data) / ps.FragmentSize)
FragmentCount(d, fragmentSize) == Len(d) \div fragmentSize

\* if len(data) < ps.FragmentSize: the rest of the data goes out as fragment 0
IsFinalChunkSlack(d, fragmentSize) == Len(d) <= fragmentSize
IsFinalChunk(d, fragmentSize) == Len(d) < fragmentSize

\* data[:ps.FragmentSize]
ChunkWhole(d, fragmentSize) == d
Chunk(d, fragmentSize) == Take(d, fragmentSize)

\* data = data[ps.FragmentSize:]
RestSkipping(d, fragmentSize) == Drop(d, fragmentSize + 1)
Rest(d, fragmentSize) == Drop(d, fragmentSize)

\* fragmentID++ on a uint8
NextFragmentIDStuck(f) == f
NextFragmentID(f) == (f + 1) % FragmentIDMod

\* if i < fragments: another packet follows, so Send sleeps first
PacingDueAlways(index, count) == index <= count
PacingDue(index, count) == index < count

\* the packet as Send rewrites it for the next fragment
Fragment(packet, d, id) ==
    IF IsFinalChunk(d, FragmentSize)
    THEN [packet EXCEPT !.payload = d, !.fragmentID = 0]
    ELSE [packet EXCEPT !.payload = Chunk(d, FragmentSize), !.fragmentID = id]

SetFragmentSize(fragmentSize) ==
    /\ sendPc = "idle"
    /\ FragmentSize' = fragmentSize
    /\ UNCHANGED <<sendPc, sendPacketArg, data, fragments, fragmentID, i, emitted,
                   sleeps, origPayload, slidingWindows, unreliableCounter,
                   pingCounter, scheduled, wire, calls, failing, logged>>
    /\ UNCHANGED notSendVars

\* the packet is not a PRUDPPacketInterface: Send does nothing
SendOther ==
    /\ sendPc = "idle"
    /\ sendPc' = "done"
    /\ UNCHANGED <<FragmentSize, sendPacketArg, data, fragments, fragmentID, i,
                   emitted, sleeps, origPayload, slidingWindows,
                   unreliableCounter, pingCounter, scheduled, wire, calls, failing, logged>>
    /\ UNCHANGED notSendVars

\* data := packet.Payload(); fragments := len(data) / ps.FragmentSize
SendBegin(packet) ==
    /\ sendPc = "idle"
    /\ sendPacketArg' = packet
    /\ origPayload' = packet.payload
    /\ IF FragmentSize = 0
       THEN /\ sendPc' = "panic"       \* integer divide by zero
            /\ UNCHANGED <<data, fragments, fragmentID, i>>
       ELSE /\ sendPc' = "loop"
            /\ data' = packet.payload
            /\ fragments' = FragmentCount(packet.payload, FragmentSize)
            /\ fragmentID' = 1
            /\ i' = 0
    /\ UNCHANGED <<FragmentSize, emitted, sleeps, slidingWindows,
                   unreliableCounter, pingCounter, scheduled, wire, calls, failing, logged>>
    /\ UNCHANGED notSendVars

\* one iteration of the loop up to and including ps.sendPacket(packet)
SendFragment ==
    /\ sendPc = "loop"
    /\ i <= fragments
    /\ IF IsFinalChunk(data, FragmentSize)
       THEN UNCHANGED <<data, fragmentID>>
       ELSE /\ data' = Rest(data, FragmentSize)
            /\ fragmentID' = NextFragmentID(fragmentID)
    /\ emitted' = Append(emitted, Fragment(sendPacketArg, data, fragmentID))
    /\ sendPacket(Fragment(sendPacketArg, data, fragmentID))
    /\ IF PacingDue(i, fragments)
       THEN sendPc' = "sleep" /\ i' = i
       ELSE sendPc' = "loop" /\ i' = i + 1
    /\ UNCHANGED <<FragmentSize, fragments, sleeps, origPayload, failing>>
    /\ UNCHANGED notSendVars

\* time.Sleep(16 * time.Millisecond) between two fragments
SendSleep ==
    /\ sendPc = "sleep"
    /\ sleeps' = sleeps + 1
    /\ i' = i + 1
    /\ sendPc' = "loop"
    /\ UNCHANGED <<FragmentSize, sendPacketArg, data, fragments, fragmentID,
                   emitted, origPayload, slidingWindows, unreliableCounter,
                   pingCounter, scheduled, wire, calls, failing, logged>>
    /\ UNCHANGED notSendVars

SendReturn ==
    /\ sendPc = "loop"
    /\ i > fragments
    /\ sendPc' = "done"
    /\ UNCHANGED <<FragmentSize, sendPacketArg, data, fragments, fragmentID, i,
                   emitted, sleeps, origPayload, slidingWindows,
                   unreliableCounter, pingCounter, scheduled, wire, calls, failing, logged>>
    /\ UNCHANGED notSendVars

SendInit ==
    /\ FragmentSize = DefaultFragmentSize
    /\ sendPc = "idle"
    /\ sendPacketArg = None
    /\ data = <<>>
    /\ fragments = 0
    /\ fragmentID = 0
    /\ i = 0
    /\ emitted = <<>>
    /\ sleeps = 0
    /\ origPayload = <<>>
    /\ slidingWindows = [s \in Substreams |-> 0]
    /\ unreliableCounter = 0
    /\ pingCounter = 0
    /\ scheduled = <<>>
    /\ wire = <<>>
    /\ calls = <<>>
    /\ failing = {}
    /\ logged = <<>>
    /\ otherWire = <<>>

vars == <<sendVars, dispatchVars, listenVars, otherVars, streamVars,
          structVars, typeVars>>

SendNext ==
    \/ \E fragmentSize \in 0..MaxFragmentSize : SetFragmentSize(fragmentSize)
    \/ SendOther
    \/ \E ptype \in PacketTypes, flags \in SUBSET Flags, version \in Versions,
          substreamID \in Substreams, payload \in Payloads :
          SendBegin(NewPacket(ptype, flags, version, substreamID, payload))
    \/ SendFragment
    \/ SendSleep
    \/ SendReturn

(***************************************************************************)
(* Send on a connection with a history, beside another connection's Send  *)
(***************************************************************************)
\* the connection has sent 65534 reliable packets on every substream
\* before: NextOutgoingSequenceID was called as often
EarlierSends ==
    /\ sendPc = "idle"
    /\ \A s \in Substreams : slidingWindows[s] = 0
    /\ slidingWindows' = [s \in Substreams |-> SequenceIDMod - 2]
    /\ UNCHANGED <<FragmentSize, sendPc, sendPacketArg, data, fragments, fragmentID,
                   i, emitted, sleeps, origPayload, unreliableCounter, pingCounter,
                   scheduled, wire, calls, failing, logged>>
    /\ UNCHANGED notSendVars

\* a Send for another connection, of a payload shorter than FragmentSize:
\* one packet and no delay.  Send takes no lock of the server, so nothing
\* the first Send does keeps it back.
OtherSend ==
    /\ sendPc # "panic"
    /\ Len(otherWire) < MaxOtherSends
    /\ otherWire' = Append(otherWire, sendPc = "sleep")
    /\ UNCHANGED <<sendVars, dispatchVars, listenVars, streamVars, structVars,
                   typeVars>>

\* the packets sent on the busy connection
BusyPackets ==
    {NewPacket(ptype, flags, 0, substreamID, payload) :
        ptype \in PacketTypes, flags \in SUBSET {"Ack", "Reliable"},
        substreamID \in Substreams, payload \in Payloads}

BusySendNext ==
    \/ \E fragmentSize \in 0..MaxFragmentSize : SetFragmentSize(fragmentSize)
    \/ EarlierSends
    \/ \E packet \in BusyPackets : SendBegin(packet)
    \/ SendFragment
    \/ SendSleep
    \/ SendReturn
    \/ OtherSend

(***************************************************************************)
(* Send of a payload of 256 chunks                                         *)
(***************************************************************************)
\* payloads around 256 bytes, sent with a FragmentSize of 1 or more
LongPackets ==
    {NewPacket("DATA", {"Reliable"}, 0, 0, PayloadOfLen(n)) :
        n \in (FragmentIDMod - 1)..(FragmentIDMod + MaxLen)}

LongSendNext ==
    \/ \E fragmentSize \in 1..MaxFragmentSize : SetFragmentSize(fragmentSize)
    \/ \E packet \in LongPackets : SendBegin(packet)
    \/ SendFragment
    \/ SendSleep
    \/ SendReturn

(***************************************************************************)
(* Two Send calls on one connection                                        *)
(***************************************************************************)
\* the same steps as SendBegin, SendFragment, SendSleep and SendReturn, made
\* by another goroutine with locals of its own while the first Send is
\* under way; Send takes no lock, so the steps of the two calls interleave
\* freely
SecondSendBegin(packet) ==
    /\ secondPc = "idle"
    /\ sendPc \in {"loop", "sleep"}
    /\ secondPc' = "loop"
    /\ secondPacket' = packet
    /\ secondData' = packet.payload
    /\ secondFragments' = FragmentCount(packet.payload, FragmentSize)
    /\ secondFragmentID' = 1
    /\ secondI' = 0
    /\ UNCHANGED <<secondSent, slidingWindows, unreliableCounter, pingCounter,
                   scheduled, wire, calls, logged>>
    /\ UNCHANGED notSecondVars

SecondSendFragment ==
    /\ secondPc = "loop"
    /\ secondI <= secondFragments
    /\ IF IsFinalChunk(secondData, FragmentSize)
       THEN UNCHANGED <<secondData, secondFragmentID>>
       ELSE /\ secondData' = Rest(secondData, FragmentSize)
            /\ secondFragmentID' = NextFragmentID(secondFragmentID)
    /\ secondPacket' = Fragment(secondPacket, secondData, secondFragmentID)
    /\ sendPacketOnConnection(Fragment(secondPacket, secondData, secondFragmentID))
    /\ secondSent' = secondSent \cup {Len(wire) + 1}
    /\ IF PacingDue(secondI, secondFragments)
       THEN secondPc' = "sleep" /\ secondI' = secondI
       ELSE secondPc' = "loop" /\ secondI' = secondI + 1
    /\ UNCHANGED secondFragments
    /\ UNCHANGED notSecondVars

SecondSendSleep ==
    /\ secondPc = "sleep"
    /\ secondI' = secondI + 1
    /\ secondPc' = "loop"
    /\ UNCHANGED <<secondPacket, secondData, secondFragments, secondFragmentID,
                   secondSent, slidingWindows, unreliableCounter, pingCounter,
                   scheduled, wire, calls, logged>>
    /\ UNCHANGED notSecondVars

SecondSendReturn ==
    /\ secondPc = "loop"
    /\ secondI > secondFragments
    /\ secondPc' = "done"
    /\ UNCHANGED <<secondPacket, secondData, secondFragments, secondFragmentID,
                   secondI, secondSent, slidingWindows, unreliableCounter,
                   pingCounter, scheduled, wire, calls, logged>>
    /\ UNCHANGED notSecondVars

SecondInit ==
    /\ secondPc = "idle"
    /\ secondPacket = None
    /\ secondData = <<>>
    /\ secondFragments = 0
    /\ secondFragmentID = 0
    /\ secondI = 0
    /\ secondSent = {}

\* reliable DATA packets
ReliablePackets ==
    {NewPacket("DATA", {"Reliable"}, 0, substreamID, payload) :
        substreamID \in Substreams, payload \in Payloads}

TwoSendNext ==
    \/ \E fragmentSize \in 1..MaxFragmentSize : SetFragmentSize(fragmentSize)
    \/ \E packet \in ReliablePackets : SendBegin(packet)
    \/ SendFragment
    \/ SendSleep
    \/ SendReturn
    \/ \E packet \in ReliablePackets : SecondSendBegin(packet)
    \/ SecondSendFragment
    \/ SecondSendSleep
    \/ SecondSendReturn

(***************************************************************************)
(* Send on a connection whose algorithms fail                              *)
(***************************************************************************)
\* the compression or the encryption algorithm of the stream settings, or
\* both, return an error on every call from now on
AlgorithmsFail(steps) ==
    /\ sendPc = "idle"
    /\ failing = {}
    /\ failing' = steps
    /\ UNCHANGED <<FragmentSize, sendPc, sendPacketArg, data, fragments, fragmentID,
                   i, emitted, sleeps, origPayload, slidingWindows,
                   unreliableCounter, pingCounter, scheduled, wire, calls, logged>>
    /\ UNCHANGED notSendVars

\* the DATA packets sent meanwhile
FailingPackets ==
    {NewPacket("DATA", flags, 0, substreamID, payload) :
        flags \in SUBSET {"Ack", "Reliable", "NeedsAck"},
        substreamID \in Substreams, payload \in Payloads}

FailingSendNext ==
    \/ \E fragmentSize \in 0..MaxFragmentSize : SetFragmentSize(fragmentSize)
    \/ \E steps \in (SUBSET {"Compress", "Encrypt"}) \ {{}} : AlgorithmsFail(steps)
    \/ \E packet \in FailingPackets : SendBegin(packet)
    \/ SendFragment
    \/ SendSleep
    \/ SendReturn

(***************************************************************************)
(* Endpoints and PRUDPServer.BindPRUDPEndPoint                             *)
(***************************************************************************)
EndPoints == 1..MaxEndPoints

\* endpoint.StreamID of the endpoint objects: 1, 2, ..., MaxStreamID, 1, ...
StreamIDOf(e) == ((e - 1) % MaxStreamID) + 1

\* ps.Endpoints.Has(streamID)
HasAlwaysFalse(streamID) == FALSE
Has(streamID) == streamID \in DOMAIN Endpoints

\* ps.Endpoints.Get(streamID): the endpoint (nil if there is none) and ok
NilEndPoint == 0
Get(streamID) ==
    IF streamID \in DOMAIN Endpoints THEN <<Endpoints[streamID], TRUE>>
    ELSE <<NilEndPoint, FALSE>>

\* the process has died: a handler goroutine or ListenUDP panicked
Crashed == hPc = "panic" \/ loopPc = "panic"

BindPRUDPEndPoint(endpoint) ==
    /\ ~Crashed
    /\ IF Has(StreamIDOf(endpoint))
       THEN UNCHANGED <<Endpoints, endpointServer>>
       ELSE /\ endpointServer' = [endpointServer EXCEPT ![endpoint] = TRUE]
            /\ Endpoints' = [s \in DOMAIN Endpoints \cup {StreamIDOf(endpoint)} |->
                                IF s = StreamIDOf(endpoint) THEN endpoint
                                ELSE Endpoints[s]]
    /\ bindCalled' = bindCalled \cup {endpoint}
    /\ firstBound' = IF StreamIDOf(endpoint) \in DOMAIN firstBound
                     THEN firstBound
                     ELSE firstBound @@ (StreamIDOf(endpoint) :> endpoint)
    /\ UNCHANGED <<udpSocket, websocketServer, hPc, packetData, hDialect, hCount,
                   hIndex, hPacket, hErr, hEndpoint, delivered, sockets>>
    /\ UNCHANGED notDispatchVars

(***************************************************************************)
(* BindPRUDPEndPoint called by several goroutines                          *)
(***************************************************************************)
Binders == 1..MaxBinders

\* the call up to and including ps.Endpoints.Has(endpoint.StreamID): the map
\* takes its lock for the lookup and releases it before Has returns
BindHas(g, endpoint) ==
    /\ bindPc[g] = "idle"
    /\ bindArg' = [bindArg EXCEPT ![g] = endpoint]
    /\ bindPc' = [bindPc EXCEPT ![g] = IF Has(StreamIDOf(endpoint)) THEN "rejected"
                                                                    ELSE "checked"]
    /\ UNCHANGED <<Endpoints, endpointServer>>
    /\ UNCHANGED notBinderVars

\* the rest of the call: endpoint.Server = ps and ps.Endpoints.Set(...), which
\* takes the lock of the map again and stores the endpoint under the id
BindSet(g) ==
    /\ bindPc[g] = "checked"
    /\ bindPc' = [bindPc EXCEPT ![g] = "bound"]
    /\ endpointServer' = [endpointServer EXCEPT ![bindArg[g]] = TRUE]
    /\ Endpoints' = [s \in DOMAIN Endpoints \cup {StreamIDOf(bindArg[g])} |->
                        IF s = StreamIDOf(bindArg[g]) THEN bindArg[g]
                        ELSE Endpoints[s]]
    /\ UNCHANGED bindArg
    /\ UNCHANGED notBinderVars

\* the call returns; the goroutine may call again
BindReturn(g) ==
    /\ bindPc[g] \in {"bound", "rejected"}
    /\ bindPc' = [bindPc EXCEPT ![g] = "idle"]
    /\ bindArg' = [bindArg EXCEPT ![g] = NilEndPoint]
    /\ UNCHANGED <<Endpoints, endpointServer>>
    /\ UNCHANGED notBinderVars

BinderInit ==
    /\ bindPc = [g \in Binders |-> "idle"]
    /\ bindArg = [g \in Binders |-> NilEndPoint]

BinderNext ==
    \/ \E g \in Binders, endpoint \in EndPoints : BindHas(g, endpoint)
    \/ \E g \in Binders : BindSet(g)
    \/ \E g \in Binders : BindReturn(g)

(***************************************************************************)
(* Listeners                                                               *)
(***************************************************************************)
\* listenAndServeUDP up to ps.udpSocket = socket
ListenUDP ==
    /\ ~Crashed
    /\ ~udpSocket
    /\ udpSocket' = TRUE
    /\ UNCHANGED <<websocketServer, Endpoints, endpointServer, bindCalled, firstBound,
                   hPc, packetData, hDialect, hCount, hIndex, hPacket, hErr,
                   hEndpoint, delivered, sockets>>
    /\ UNCHANGED notDispatchVars

ListenWebSocket ==
    /\ ~Crashed
    /\ ~websocketServer
    /\ websocketServer' = TRUE
    /\ UNCHANGED <<udpSocket, Endpoints, endpointServer, bindCalled, firstBound,
                   hPc, packetData, hDialect, hCount, hIndex, hPacket, hErr,
                   hEndpoint, delivered, sockets>>
    /\ UNCHANGED notDispatchVars

(***************************************************************************)
(* The UDP receive loop and PRUDPServer.handleSocketMessage                *)
(***************************************************************************)
DatagramBytes == {0, LiteMagic, V1Magic[1], V1Magic[2]}
Datagrams == SeqsUpTo(DatagramBytes, MaxDatagramLen)

\* ReadFromUDP, packetData := make([]byte, read), copy, go handleSocketMessage:
\* the handler gets a slice whose capacity is its length
ReadFromUDP(datagram) ==
    /\ udpSocket
    /\ hPc = "idle"
    /\ hPc' = "spawned"
    /\ packetData' = datagram
    /\ UNCHANGED <<udpSocket, websocketServer, Endpoints, endpointServer,
                   bindCalled, firstBound, hDialect, hCount, hIndex, hPacket, hErr,
                   hEndpoint, delivered, sockets>>
    /\ UNCHANGED notDispatchVars

\* the three-way choice of the decoder; packetData[0] needs one byte and
\* packetData[:2] needs a capacity of two
DialectIgnoringListener(pd, ws) ==
    IF pd # <<>> /\ pd[1] = LiteMagic THEN "lite"
    ELSE IF Len(pd) < 2 THEN "panic"
    ELSE IF Take(pd, 2) = V1Magic THEN "v1"
    ELSE "v0"
Dialect(pd, ws) ==
    IF ws /\ pd = <<>> THEN "panic"              \* index out of range [0]
    ELSE IF ws /\ pd[1] = LiteMagic THEN "lite"
    ELSE IF Len(pd) < 2 THEN "panic"             \* slice bounds out of range [:2]
    ELSE IF Take(pd, 2) = V1Magic THEN "v1"
    ELSE "v0"

\* handleSocketMessage up to the choice of the decoder
DetectDialect ==
    /\ hPc = "spawned"
    /\ IF Dialect(packetData, websocketServer) = "panic"
       THEN hPc' = "panic" /\ UNCHANGED hDialect
       ELSE hPc' = "detected" /\ hDialect' = Dialect(packetData, websocketServer)
    /\ UNCHANGED <<udpSocket, websocketServer, Endpoints, endpointServer,
                   bindCalled, firstBound, packetData, hCount, hIndex, hPacket, hErr,
                   hEndpoint, delivered, sockets>>
    /\ UNCHANGED notDispatchVars

\* NewPRUDPPacketsLite / V1 / V0 read the stream to its end and return the
\* packets they could decode (the error is dropped)
DecodePackets(count) ==
    /\ hPc = "detected"
    /\ hPc' = "packets"
    /\ hCount' = count
    /\ packetData' = <<>>
    /\ UNCHANGED <<udpSocket, websocketServer, Endpoints, endpointServer,
                   bindCalled, firstBound, hDialect, hIndex, hPacket, hErr,
                   hEndpoint,
                   delivered, sockets>>
    /\ UNCHANGED notDispatchVars

(***************************************************************************)
(* PRUDPServer.processPacket                                               *)
(***************************************************************************)
\* packet.DestinationVirtualPortStreamType() != packet.SourceVirtualPortStreamType()
StreamTypesDifferNever(p) == FALSE
StreamTypesDiffer(p) == p.destStreamType # p.sourceStreamType

\* the source port check: the else branch is also taken by a lite packet
\* whose port is at most 31
InvalidSourcePortLoose(p) ==
    IF p.dialect = "lite" THEN p.sourcePort > LitePortLimit + 1
    ELSE p.sourcePort > LegacyPortLimit
InvalidSourcePort(p) ==
    IF p.dialect = "lite" /\ p.sourcePort > LitePortLimit THEN TRUE
    ELSE IF p.sourcePort > LegacyPortLimit THEN TRUE
    ELSE FALSE

\* the error processPacket returns, "nil" for none
processPacketErrorNoLookup(p) ==
    IF StreamTypesDiffer(p) THEN "non matching stream types"
    ELSE IF p.destStreamType > StreamTypeRelay THEN "invalid destination stream type"
    ELSE IF p.sourceStreamType > StreamTypeRelay THEN "invalid source stream type"
    ELSE IF InvalidSourcePort(p) THEN "invalid source port"
    ELSE "nil"
processPacketError(p) ==
    IF ~Has(p.destStreamID) THEN "unbound endpoint"
    ELSE IF ~Get(p.destStreamID)[2] THEN "unbound endpoint"
    ELSE IF StreamTypesDiffer(p) THEN "non matching stream types"
    ELSE IF p.destStreamType > StreamTypeRelay THEN "invalid destination stream type"
    ELSE IF p.sourceStreamType > StreamTypeRelay THEN "invalid source stream type"
    ELSE IF InvalidSourcePort(p) THEN "invalid source port"
    ELSE "nil"

\* if err != nil { logger.Warning(err.Error()); return err }
ReturnsOnErrorNever(err) == FALSE
ReturnsOnError(err) == err # "nil"

\* one iteration of the loop over the decoded packets
ProcessPacket(p) ==
    /\ hPc = "packets"
    /\ hIndex < hCount
    /\ hPacket' = p
    /\ hIndex' = hIndex + 1
    /\ hErr' = processPacketError(p)
    /\ hEndpoint' = Get(p.destStreamID)[1]
    /\ IF processPacketError(p) = "nil"
       THEN /\ sockets' = sockets + 1
            /\ delivered' = Append(delivered, hIndex + 1)
            /\ hPc' = "packets"
       ELSE /\ hPc' = IF ReturnsOnError(processPacketError(p)) THEN "returned"
                                                               ELSE "packets"
            /\ UNCHANGED <<sockets, delivered>>
    /\ UNCHANGED <<udpSocket, websocketServer, Endpoints, endpointServer,
                   bindCalled, firstBound, packetData, hDialect, hCount>>
    /\ UNCHANGED notDispatchVars

\* all packets processed: return nil
HandlerReturn ==
    /\ hPc = "packets"
    /\ hIndex = hCount
    /\ hPc' = "returned"
    /\ UNCHANGED <<udpSocket, websocketServer, Endpoints, endpointServer,
                   bindCalled, firstBound, packetData, hDialect, hCount, hIndex,
                   hPacket, hErr, hEndpoint, delivered, sockets>>
    /\ UNCHANGED notDispatchVars

\* the goroutine of the handler ends; the receive loop can start another
HandlerExit ==
    /\ hPc = "returned"
    /\ hPc' = "idle"
    /\ packetData' = <<>>
    /\ hDialect' = None
    /\ hCount' = 0
    /\ hIndex' = 0
    /\ hPacket' = None
    /\ hErr' = "nil"
    /\ hEndpoint' = NilEndPoint
    /\ delivered' = <<>>
    /\ sockets' = 0
    /\ UNCHANGED <<udpSocket, websocketServer, Endpoints, endpointServer,
                   bindCalled, firstBound>>
    /\ UNCHANGED notDispatchVars

DispatchInit ==
    /\ udpSocket = FALSE
    /\ websocketServer = FALSE
    /\ Endpoints = <<>>
    /\ endpointServer = [e \in EndPoints |-> FALSE]
    /\ firstBound = <<>>
    /\ bindCalled = {}
    /\ hPc = "idle"
    /\ packetData = <<>>
    /\ hDialect = None
    /\ hCount = 0
    /\ hIndex = 0
    /\ hPacket = None
    /\ hErr = "nil"
    /\ hEndpoint = NilEndPoint
    /\ delivered = <<>>
    /\ sockets = 0

(***************************************************************************)
(* The receive loop of listenAndServeUDP, its handlers, and sendRaw        *)
(***************************************************************************)
\* the datagrams the receive loop is given
ReadDatagrams == SeqsUpTo({0, LiteMagic}, MaxReadLen)

\* ReadFromUDP(buffer): the datagram overwrites the front of the buffer
ReadInto(buf, datagram) ==
    [j \in 1..Len(buf) |-> IF j <= Len(datagram) THEN datagram[j] ELSE buf[j]]

\* packetData := make([]byte, read); copy(packetData, buffer[:read])
SliceOf(buf, read) == NewSlice("buffer", read, <<>>)
CopyOf(buf, read) == NewSlice("own", read, Take(buf, read))

\* the bytes a handler reads through its packetData when the buffer is buf
Sees(h, buf) ==
    IF h.packetData.backing = "buffer" THEN Take(buf, h.packetData.length)
    ELSE h.packetData.bytes

Serving == udpSocket /\ ~Crashed /\ loopPc = "serving"

\* one iteration of the for loop: read, copy, go ps.handleSocketMessage
ReceiveDatagram(datagram) ==
    /\ Serving
    /\ Len(handlers) < MaxHandlers
    /\ buffer' = ReadInto(buffer, datagram)
    /\ handlers' = Append(handlers,
                          NewHandler(CopyOf(buffer', Len(datagram)), datagram))
    /\ UNCHANGED <<udpSocket, websocketServer, hPc, loopPc, rawWrites, errorLog>>
    /\ UNCHANGED notListenVars

\* ReadFromUDP returns an error: listenAndServeUDP returns it and ListenUDP
\* panics with it
ReceiveFails ==
    /\ Serving
    /\ loopPc' = "panic"
    /\ UNCHANGED <<udpSocket, websocketServer, hPc, buffer, handlers, rawWrites,
                   errorLog>>
    /\ UNCHANGED notListenVars

\* the k-th running handler runs handleSocketMessage on its packetData and
\* ends, or panics while choosing the decoder
HandlerRuns(k) ==
    /\ ~Crashed
    /\ k \in 1..Len(handlers)
    /\ IF Dialect(Sees(handlers[k], buffer), websocketServer) = "panic"
       THEN hPc' = "panic" /\ UNCHANGED handlers
       ELSE /\ handlers' = Take(handlers, k - 1) \o Drop(handlers, k)
            /\ UNCHANGED hPc
    /\ UNCHANGED <<udpSocket, websocketServer, loopPc, buffer, rawWrites, errorLog>>
    /\ UNCHANGED notListenVars

\* the transport sendRaw writes to: the UDP socket, the WebSocket
\* connection of the socket, or nothing
RawTransport(addressIsUDP, hasWebSocketConnection) ==
    IF addressIsUDP /\ udpSocket THEN {"udp"}
    ELSE IF hasWebSocketConnection THEN {"websocket"}
    ELSE {}

\* sendRaw: a failed write is logged and nothing else happens
sendRaw(addressIsUDP, hasWebSocketConnection, writeFails) ==
    /\ ~Crashed
    /\ rawWrites' = rawWrites \cup RawTransport(addressIsUDP, hasWebSocketConnection)
    /\ errorLog' =
          IF writeFails /\ RawTransport(addressIsUDP, hasWebSocketConnection) # {}
          THEN errorLog \cup {"write"} ELSE errorLog
    /\ UNCHANGED <<udpSocket, websocketServer, hPc, loopPc, buffer, handlers>>
    /\ UNCHANGED notListenVars

ListenInit ==
    /\ loopPc = "serving"
    /\ buffer = [j \in 1..MaxReadLen |-> 0]
    /\ handlers = <<>>
    /\ rawWrites = {}
    /\ errorLog = {}

(***************************************************************************)
(* ByteStreamIn                                                            *)
(***************************************************************************)
\* the ReadPrimitive* methods and the number of bytes each one needs
Primitives ==
    {<<"UInt8", 1>>, <<"UInt16LE", 2>>, <<"UInt32LE", 4>>, <<"UInt64LE", 8>>,
     <<"Int8", 1>>, <<"Int16LE", 2>>, <<"Int32LE", 4>>, <<"Int64LE", 8>>,
     <<"Float32LE", 4>>, <<"Float64LE", 8>>, <<"Bool", 1>>}

\* NewByteStreamIn(data, server)
NewByteStreamIn(d) ==
    /\ streamPc = "none"
    /\ streamPc' = "open"
    /\ streamData' = d
    /\ byteOffset' = 0
    /\ UNCHANGED <<readCall, readRequest, readResult, readErr>>
    /\ UNCHANGED notStreamVars

\* len(bsi.Bytes()[bsi.ByteOffset():])
Remaining == Len(streamData) - byteOffset

\* if bsi.Remaining() < length
IsOOBNever(remaining, length) == FALSE
IsOOB(remaining, length) == remaining < length

\* what a read of length bytes does: the error if the remaining data is too
\* short; else ReadBytesNext / ReadByteNext / ReadU16LENext ... take the
\* bytes at the offset and move it, and panic if the data ends before
ReadNext(length, err) ==
    /\ streamPc = "open"
    /\ readRequest' = length
    /\ IF IsOOB(Remaining, length)
       THEN /\ readErr' = err
            /\ readResult' = <<>>
            /\ UNCHANGED <<streamPc, byteOffset>>
       ELSE IF byteOffset + length > Len(streamData)
       THEN /\ streamPc' = "panic"       \* slice bounds out of range
            /\ UNCHANGED <<byteOffset, readResult, readErr>>
       ELSE /\ readErr' = "nil"
            /\ readResult' = SubSeq(streamData, byteOffset + 1, byteOffset + length)
            /\ byteOffset' = byteOffset + length
            /\ UNCHANGED streamPc
    /\ UNCHANGED streamData
    /\ UNCHANGED notStreamVars

\* bsi.Read(length)
Read(length) ==
    /\ readCall' = "Read"
    /\ ReadNext(length, "Read is OOB")

\* bsi.ReadPrimitiveUInt8(), ..., bsi.ReadPrimitiveBool()
ReadPrimitive(primitive) ==
    /\ readCall' = "ReadPrimitive" \o primitive[1]
    /\ ReadNext(primitive[2], "Not enough data to read " \o primitive[1])

\* bsi.ReadRemaining(): bsi.Read(bsi.Remaining()), the error is dropped
ReadRemaining ==
    /\ readCall' = "ReadRemaining"
    /\ ReadNext(Remaining, "Read is OOB")

StreamInit ==
    /\ streamPc = "none"
    /\ streamData = <<>>
    /\ byteOffset = 0
    /\ readCall = None
    /\ readRequest = 0
    /\ readResult = <<>>
    /\ readErr = "nil"

\* the data of the streams
StreamDatas == {PayloadOfLen(n) : n \in 0..MaxStreamLen}

StreamNext ==
    \/ \E d \in StreamDatas : NewByteStreamIn(d)
    \/ \E length \in 0..(MaxStreamLen + 1) : Read(length)
    \/ \E primitive \in Primitives : ReadPrimitive(primitive)
    \/ ReadRemaining

(***************************************************************************)
(* ResultRange and RVConnectionData: Copy and Equals                       *)
(***************************************************************************)
StructureVersions == 0..MaxStructureVersion
FieldValues == 0..MaxFieldValue

ResultRanges ==
    {ResultRangeOf(version, offset, length) :
        version \in StructureVersions, offset \in FieldValues, length \in FieldValues}

\* ResultRange.Copy
ResultRangeCopy(x) == ResultRangeOf(x.structureVersion, x.Offset, x.Length)

\* ResultRange.Equals: the first test returns false when the structure
\* versions are equal
ResultRangeEquals(x, other) ==
    IF x.structureVersion = other.structureVersion THEN FALSE
    ELSE IF x.Offset # other.Offset THEN FALSE
    ELSE IF x.Length # other.Length THEN FALSE
    ELSE TRUE

\* station URLs: a scheme and a list of fields (key, value)
StationURLs ==
    {<<"", <<>>>>, <<"prudp", <<>>>>, <<"prudp", <<<<"PID", "1">>>>>>}

RECURSIVE JoinFields(_)
JoinFields(fields) ==
    IF fields = <<>> THEN ""
    ELSE Head(fields)[1] \o "=" \o Head(fields)[2]
            \o (IF Len(fields) > 1 THEN ";" ELSE "") \o JoinFields(Tail(fields))

\* StationURL.EncodeToString
EncodeToString(url) ==
    IF url[1] = "" THEN "" ELSE url[1] \o ":/" \o JoinFields(url[2])

\* StationURL.Copy: NewStationURL(s.EncodeToString()); FromString("") sets
\* nothing, and any other encoding is split back into scheme and fields
StationURLCopy(url) == IF EncodeToString(url) = "" THEN <<"", <<>>>> ELSE url

\* StationURL.Equals
StationURLEquals(url, other) == EncodeToString(url) = EncodeToString(other)

\* DateTime.Copy and DateTime.Equals on a non-nil Time
DateTimeCopy(time) == <<time[1]>>
DateTimeEquals(time, other) == time[1] = other[1]

Times == {<<>>} \cup {<<value>> : value \in FieldValues}

RVConnectionDatas ==
    {RVConnectionDataOf(version, url, protocols, protocolsURL, time) :
        version \in StructureVersions, url \in StationURLs,
        protocols \in SeqsUpTo(FieldValues, 1), protocolsURL \in StationURLs,
        time \in Times}

\* RVConnectionData.Copy
RVConnectionDataCopy(x) ==
    RVConnectionDataOf(x.structureVersion, StationURLCopy(x.StationURL),
                       [j \in 1..Len(x.SpecialProtocols) |-> x.SpecialProtocols[j]],
                       StationURLCopy(x.StationURLSpecialProtocols),
                       IF x.Time # <<>> THEN DateTimeCopy(x.Time) ELSE <<>>)

\* RVConnectionData.Equals: the first test returns false when the structure
\* versions are equal
RVConnectionDataEquals(x, other) ==
    IF x.structureVersion = other.structureVersion THEN FALSE
    ELSE IF ~StationURLEquals(x.StationURL, other.StationURL) THEN FALSE
    ELSE IF x.SpecialProtocols # other.SpecialProtocols THEN FALSE
    ELSE IF ~StationURLEquals(x.StationURLSpecialProtocols,
                              other.StationURLSpecialProtocols) THEN FALSE
    ELSE IF x.Time # <<>> /\ other.Time = <<>> THEN FALSE
    ELSE IF x.Time = <<>> /\ other.Time # <<>> THEN FALSE
    ELSE IF x.Time # <<>> /\ other.Time # <<>> /\ ~DateTimeEquals(x.Time, other.Time)
    THEN FALSE
    ELSE TRUE

\* x.Equals(other) for two ResultRanges
EqualsResultRange(x, other) ==
    /\ structPc = "none"
    /\ structPc' = "Equals"
    /\ structThis' = x
    /\ structOther' = other
    /\ structResult' = ResultRangeEquals(x, other)
    /\ UNCHANGED notStructVars

\* x.Equals(x.Copy()) for a ResultRange
CopyResultRange(x) ==
    /\ structPc = "none"
    /\ structPc' = "Copy"
    /\ structThis' = x
    /\ structOther' = ResultRangeCopy(x)
    /\ structResult' = ResultRangeEquals(x, ResultRangeCopy(x))
    /\ UNCHANGED notStructVars

\* x.Equals(other) for two RVConnectionDatas
EqualsRVConnectionData(x, other) ==
    /\ structPc = "none"
    /\ structPc' = "Equals"
    /\ structThis' = x
    /\ structOther' = other
    /\ structResult' = RVConnectionDataEquals(x, other)
    /\ UNCHANGED notStructVars

\* x.Equals(x.Copy()) for an RVConnectionData
CopyRVConnectionData(x) ==
    /\ structPc = "none"
    /\ structPc' = "Copy"
    /\ structThis' = x
    /\ structOther' = RVConnectionDataCopy(x)
    /\ structResult' = RVConnectionDataEquals(x, RVConnectionDataCopy(x))
    /\ UNCHANGED notStructVars

StructInit ==
    /\ structPc = "none"
    /\ structThis = <<>>
    /\ structOther = <<>>
    /\ structResult = FALSE

\* one call on fresh structures
StructNext ==
    \/ /\ structPc = "none"
       /\ \E x \in ResultRanges, other \in ResultRanges : EqualsResultRange(x, other)
    \/ /\ structPc = "none"
       /\ \E x \in ResultRanges : CopyResultRange(x)
    \/ /\ structPc = "none"
       /\ \E x \in RVConnectionDatas, other \in RVConnectionDatas :
             EqualsRVConnectionData(x, other)
    \/ /\ structPc = "none"
       /\ \E x \in RVConnectionDatas : CopyRVConnectionData(x)

(***************************************************************************)
(* QUUID                                                                   *)
(***************************************************************************)
\* a string is the sequence of its characters
HexDigits ==
    <<"0", "1", "2", "3", "4", "5", "6", "7", "8", "9", "a", "b", "c", "d", "e",
      "f">>

IsHex(c) == \E k \in 1..16 : HexDigits[k] = c

HexValue(c) == (CHOOSE k \in 1..16 : HexDigits[k] = c) - 1

\* hex.EncodeToString
HexEncodeToString(bytes) ==
    [k \in 1..(2 * Len(bytes)) |->
        IF k % 2 = 1 THEN HexDigits[(bytes[(k + 1) \div 2] \div 16) + 1]
                     ELSE HexDigits[(bytes[k \div 2] % 16) + 1]]

\* hex.DecodeString: <<error, bytes>>
HexDecodeString(str) ==
    IF Len(str) % 2 = 1 \/ \E k \in 1..Len(str) : ~IsHex(str[k])
    THEN <<"invalid hex", <<>>>>
    ELSE <<"nil", [k \in 1..(Len(str) \div 2) |->
                      16 * HexValue(str[2 * k - 1]) + HexValue(str[2 * k])]>>

\* strings.Split
RECURSIVE Split(_, _)
Split(str, sep) ==
    IF \A k \in 1..Len(str) : str[k] # sep
    THEN <<str>>
    ELSE LET k == CHOOSE k \in 1..Len(str) :
                      str[k] = sep /\ \A j \in 1..(k - 1) : str[j] # sep
         IN  <<Take(str, k - 1)>> \o Split(Drop(str, k), sep)

\* slices.Reverse
Reverse(s) == [k \in 1..Len(s) |-> s[Len(s) + 1 - k]]

\* the seven slices both conversions reverse: data[0:4], data[4:6], ...
ReversedSlices == <<<<0, 4>>, <<4, 6>>, <<6, 8>>, <<8, 10>>, <<10, 12>>, <<12, 14>>,
                    <<14, 16>>>>

ReverseSlices(bytes) ==
    Concat([k \in 1..Len(ReversedSlices) |->
               Reverse(SubSeq(bytes, ReversedSlices[k][1] + 1,
                              ReversedSlices[k][2]))])

\* make([]byte, length, ...)
MakeBytes(length) == [k \in 1..length |-> 0]

\* the builtin copy(dst, src): it copies min(len(dst), len(src)) elements
CopyBytes(dst, src) ==
    [k \in 1..Len(dst) |-> IF k <= Len(src) THEN src[k] ELSE dst[k]]

\* the sizes FromString expects of the five sections
SectionSizes == <<4, 2, 2, 2, 6>>

\* appendSection: <<error, data>>
appendSection(bytes, section, expectedSize) ==
    LET decoded == HexDecodeString(section)
    IN  IF decoded[1] # "nil" THEN <<decoded[1], bytes>>
        ELSE IF Len(decoded[2]) # expectedSize
        THEN <<"Unexpected section size", bytes>>
        ELSE <<"nil", bytes \o decoded[2]>>

\* the five appendSection calls of FromString, ended by the first error
RECURSIVE appendSections(_, _, _)
appendSections(sections, k, bytes) ==
    IF k > Len(SectionSizes) THEN <<"nil", bytes>>
    ELSE LET appended == appendSection(bytes, sections[k], SectionSizes[k])
         IN  IF appended[1] # "nil"
             THEN <<"Failed to read UUID section", bytes>>
             ELSE appendSections(sections, k + 1, appended[2])

\* QUUID.FromString: <<error, qu.Data afterwards>>
FromStringOf(uuid, quData) ==
    LET sections == Split(uuid, "-")
    IN  IF Len(sections) # 5
        THEN <<"Invalid UUID. Not enough sections", quData>>
        ELSE LET appended == appendSections(sections, 1, MakeBytes(0))
             IN  IF appended[1] # "nil" THEN <<appended[1], quData>>
                 ELSE <<"nil", CopyBytes(MakeBytes(0), ReverseSlices(appended[2]))>>

DummyUUID ==
    HexEncodeToString(MakeBytes(4)) \o <<"-">> \o HexEncodeToString(MakeBytes(2))
    \o <<"-">> \o HexEncodeToString(MakeBytes(2)) \o <<"-">>
    \o HexEncodeToString(MakeBytes(2)) \o <<"-">>
    \o HexEncodeToString(MakeBytes(5) \o <<2>>)

\* QUUID.GetStringValue
GetStringValueOf(quData) ==
    IF Len(quData) # 16 THEN DummyUUID
    ELSE LET reversed == ReverseSlices(quData)
         IN  HexEncodeToString(SubSeq(reversed, 1, 4)) \o <<"-">>
             \o HexEncodeToString(SubSeq(reversed, 5, 6)) \o <<"-">>
             \o HexEncodeToString(SubSeq(reversed, 7, 8)) \o <<"-">>
             \o HexEncodeToString(SubSeq(reversed, 9, 10)) \o <<"-">>
             \o HexEncodeToString(SubSeq(reversed, 11, 12))
             \o HexEncodeToString(SubSeq(reversed, 13, 14))
             \o HexEncodeToString(SubSeq(reversed, 15, 16))

\* the strings passed to FromString: per section the encoding of distinct
\* bytes, or a string that is one character short, one byte short, or not hex
SectionBytes(k, variant) ==
    [j \in 1..SectionSizes[k] |-> (171 * variant + 16 * k + j) % 256]

SectionStrings(k) ==
    LET good == {HexEncodeToString(SectionBytes(k, v)) : v \in 0..MaxUUIDVariant}
        first == HexEncodeToString(SectionBytes(k, 0))
    IN  good \cup {Take(first, Len(first) - 1), Take(first, Len(first) - 2),
                   Take(first, Len(first) - 1) \o <<"g">>}

RECURSIVE JoinSections(_)
JoinSections(sections) ==
    IF Len(sections) = 1 THEN sections[1]
    ELSE sections[1] \o <<"-">> \o JoinSections(Tail(sections))

UUIDStrings ==
    LET five == {JoinSections(<<s1, s2, s3, s4, s5>>) :
                    s1 \in SectionStrings(1), s2 \in SectionStrings(2),
                    s3 \in SectionStrings(3), s4 \in SectionStrings(4),
                    s5 \in SectionStrings(5)}
        first == [k \in 1..5 |-> HexEncodeToString(SectionBytes(k, 0))]
    IN  five \cup {JoinSections(Take(first, 4)),
                   JoinSections(first \o <<first[5]>>)}

FromString(uuid) ==
    /\ quuidPc = "none"
    /\ quuidPc' = "FromString"
    /\ uuidArg' = uuid
    /\ quuidErr' = FromStringOf(uuid, quuidData)[1]
    /\ quuidData' = FromStringOf(uuid, quuidData)[2]
    /\ UNCHANGED quuidString
    /\ UNCHANGED notQUUIDVars

GetStringValue ==
    /\ quuidPc = "FromString"
    /\ quuidPc' = "GetStringValue"
    /\ quuidString' = GetStringValueOf(quuidData)
    /\ UNCHANGED <<uuidArg, quuidData, quuidErr>>
    /\ UNCHANGED notQUUIDVars

\* NewQUUID
QUUIDInit ==
    /\ quuidPc = "none"
    /\ uuidArg = <<>>
    /\ quuidData = MakeBytes(0)
    /\ quuidErr = "nil"
    /\ quuidString = <<>>

QUUIDNext ==
    \/ /\ quuidPc = "none"
       /\ \E uuid \in UUIDStrings : FromString(uuid)
    \/ GetStringValue

(***************************************************************************)
(* Buffer                                                                  *)
(***************************************************************************)
Buffers == SeqsUpTo({0, 255}, MaxBufferLen)

\* writable.WritePrimitiveUInt32LE(value): four bytes, the lowest first
WritePrimitiveUInt32LE(value) == [k \in 1..4 |-> (value \div (256 ^ (k - 1))) % 256]

\* Buffer.WriteTo: the bytes it writes; uint32(length) is the length itself
\* for every Buffer shorter than 2^32 bytes
WriteToOf(b) ==
    LET length == Len(b)
    IN  WritePrimitiveUInt32LE(length) \o (IF length > 0 THEN b ELSE <<>>)

\* ReadU32LENext(1)[0]
UInt32LEValue(bytes) ==
    bytes[1] + 256 * bytes[2] + 65536 * bytes[3] + 16777216 * bytes[4]

\* readable.ReadPrimitiveUInt32LE(): <<error, value, offset afterwards>>
ReadPrimitiveUInt32LEOf(bytes, offset) ==
    IF IsOOB(Len(bytes) - offset, 4)
    THEN <<"Not enough data to read uint32", 0, offset>>
    ELSE <<"nil", UInt32LEValue(SubSeq(bytes, offset + 1, offset + 4)), offset + 4>>

\* readable.Read(length): <<error, bytes read, offset afterwards>>
ReadOf(bytes, offset, length) ==
    IF IsOOB(Len(bytes) - offset, length)
    THEN <<"Read is OOB", <<>>, offset>>
    ELSE <<"nil", SubSeq(bytes, offset + 1, offset + length), offset + length>>

\* Buffer.ExtractFrom: <<error, *b afterwards, offset afterwards>>
ExtractFromUnchecked(bytes, offset, b) ==
    LET length == ReadPrimitiveUInt32LEOf(bytes, offset)
        value == ReadOf(bytes, length[3], length[2])
    IN  <<value[1], value[2], value[3]>>
ExtractFromOf(bytes, offset, b) ==
    LET length == ReadPrimitiveUInt32LEOf(bytes, offset)
        value == ReadOf(bytes, length[3], length[2])
    IN  IF length[1] # "nil"
        THEN <<"Failed to read NEX Buffer length", b, length[3]>>
        ELSE IF value[1] # "nil"
        THEN <<"Failed to read NEX Buffer data", b, value[3]>>
        ELSE <<"nil", value[2], value[3]>>

\* bytes.Equal
BufferEquals(b, other) == b = other

BufferWriteTo(b) ==
    /\ bufferPc = "none"
    /\ bufferPc' = "WriteTo"
    /\ bufferArg' = b
    /\ writable' = WriteToOf(b)
    /\ UNCHANGED <<cut, readable, readableOffset, destBefore, dest, extractErr>>
    /\ UNCHANGED notBufferVars

\* a readable over the written bytes, over the written bytes and more, or
\* over the written bytes without their last missing bytes; the destination
\* is NewBuffer(before)
NewReadable(missing, more, before) ==
    /\ bufferPc = "WriteTo"
    /\ bufferPc' = "open"
    /\ cut' = missing
    /\ readable' = Take(writable, Len(writable) - missing) \o more
    /\ readableOffset' = 0
    /\ destBefore' = before
    /\ dest' = before
    /\ UNCHANGED <<bufferArg, writable, extractErr>>
    /\ UNCHANGED notBufferVars

BufferExtractFrom ==
    /\ bufferPc = "open"
    /\ bufferPc' = "ExtractFrom"
    /\ extractErr' = ExtractFromOf(readable, readableOffset, dest)[1]
    /\ dest' = ExtractFromOf(readable, readableOffset, dest)[2]
    /\ readableOffset' = ExtractFromOf(readable, readableOffset, dest)[3]
    /\ UNCHANGED <<bufferArg, writable, cut, readable, destBefore>>
    /\ UNCHANGED notBufferVars

BufferInit ==
    /\ bufferPc = "none"
    /\ bufferArg = <<>>
    /\ writable = <<>>
    /\ cut = 0
    /\ readable = <<>>
    /\ readableOffset = 0
    /\ destBefore = <<>>
    /\ dest = <<>>
    /\ extractErr = "nil"

BufferNext ==
    \/ /\ bufferPc = "none"
       /\ \E b \in Buffers : BufferWriteTo(b)
    \/ /\ bufferPc = "WriteTo"
       /\ \E missing \in 0..Len(writable), more \in {<<>>, <<7>>},
             before \in {<<>>, <<9>>} :
             /\ missing > 0 => more = <<>>
             /\ NewReadable(missing, more, before)
    \/ BufferExtractFrom

(***************************************************************************)
(* DateTime                                                                *)
(***************************************************************************)
\* a | b
RECURSIVE BitOr(_, _)
BitOr(a, b) ==
    IF a = 0 THEN b
    ELSE IF b = 0 THEN a
    ELSE (IF a % 2 = 1 \/ b % 2 = 1 THEN 1 ELSE 0) + 2 * BitOr(a \div 2, b \div 2)

\* a & b
RECURSIVE BitAnd(_, _)
BitAnd(a, b) ==
    IF a = 0 \/ b = 0 THEN 0
    ELSE (IF a % 2 = 1 /\ b % 2 = 1 THEN 1 ELSE 0) + 2 * BitAnd(a \div 2, b \div 2)

\* a << n and a >> n
ShiftLeft(a, n) == a * (2 ^ n)
ShiftRight(a, n) == a \div (2 ^ n)

\* DateTime.Make: the value it stores
Make(year, month, day, hour, minute, second) ==
    BitOr(second,
      BitOr(ShiftLeft(minute, 6),
        BitOr(ShiftLeft(hour, 12),
          BitOr(ShiftLeft(day, 17),
            BitOr(ShiftLeft(month, 22), ShiftLeft(year, 26))))))

Second(value) == BitAnd(value, 63)
Minute(value) == BitAnd(ShiftRight(value, 6), 63)
HourSixBits(value) == BitAnd(ShiftRight(value, 12), 63)
Hour(value) == BitAnd(ShiftRight(value, 12), 31)
Day(value) == BitAnd(ShiftRight(value, 17), 31)
Month(value) == BitAnd(ShiftRight(value, 22), 15)
Year(value) == ShiftRight(value, 26)

\* the number of values of the fields second, minute, hour, day and month
FieldWidths == <<64, 64, 32, 32, 16>>

\* the components passed to Make
Components(f) ==
    {0, 1, FieldWidths[f] - 1}
    \cup (FieldWidths[f]..(FieldWidths[f] + MaxFieldExcess - 1))

DateTimeMake(year, month, day, hour, minute, second) ==
    /\ dateTimePc = "none"
    /\ dateTimePc' = "Make"
    /\ made' = <<second, minute, hour, day, month, year>>
    /\ dateTimeValue' = Make(year, month, day, hour, minute, second)
    /\ UNCHANGED readBack
    /\ UNCHANGED notDateTimeVars

\* dt.Year(), dt.Month(), dt.Day(), dt.Hour(), dt.Minute(), dt.Second()
DateTimeRead ==
    /\ dateTimePc = "Make"
    /\ dateTimePc' = "read"
    /\ readBack' = <<Second(dateTimeValue), Minute(dateTimeValue),
                     Hour(dateTimeValue), Day(dateTimeValue),
                     Month(dateTimeValue), Year(dateTimeValue)>>
    /\ UNCHANGED <<made, dateTimeValue>>
    /\ UNCHANGED notDateTimeVars

\* NewDateTime(0)
DateTimeInit ==
    /\ dateTimePc = "none"
    /\ made = <<>>
    /\ dateTimeValue = 0
    /\ readBack = <<>>

DateTimeNext ==
    \/ /\ dateTimePc = "none"
       /\ \E year \in 0..MaxYear, month \in Components(5), day \in Components(4),
             hour \in Components(3), minute \in Components(2),
             second \in Components(1) :
             DateTimeMake(year, month, day, hour, minute, second)
    \/ DateTimeRead

Init ==
    /\ SendInit /\ DispatchInit /\ ListenInit /\ StreamInit /\ StructInit
    /\ QUUIDInit /\ BufferInit /\ DateTimeInit /\ BinderInit /\ SecondInit

SendSpec == Init /\ [][SendNext]_vars

BusySendSpec == Init /\ [][BusySendNext]_vars

FailingSendSpec == Init /\ [][FailingSendNext]_vars

LongSendSpec == Init /\ [][LongSendNext]_vars

BinderSpec == Init /\ [][BinderNext]_vars

TwoSendSpec == Init /\ [][TwoSendNext]_vars

DispatchNext ==
    \/ \E endpoint \in EndPoints : BindPRUDPEndPoint(endpoint)
    \/ ListenUDP
    \/ ListenWebSocket
    \/ \E datagram \in Datagrams : ReadFromUDP(datagram)
    \/ DetectDialect
    \/ \E count \in 0..MaxPackets : DecodePackets(count)
    \/ \E p \in InPackets(hDialect) : ProcessPacket(p)
    \/ HandlerReturn
    \/ HandlerExit

DispatchSpec == Init /\ [][DispatchNext]_vars

ListenNext ==
    \/ ListenUDP
    \/ ListenWebSocket
    \/ \E datagram \in ReadDatagrams : ReceiveDatagram(datagram)
    \/ ReceiveFails
    \/ \E k \in 1..MaxHandlers : HandlerRuns(k)
    \/ \E addressIsUDP \in BOOLEAN, hasWebSocketConnection \in BOOLEAN,
          writeFails \in BOOLEAN :
          sendRaw(addressIsUDP, hasWebSocketConnection, writeFails)

ListenSpec == Init /\ [][ListenNext]_vars

StreamSpec == Init /\ [][StreamNext]_vars

StructSpec == Init /\ [][StructNext]_vars

QUUIDSpec == Init /\ [][QUUIDNext]_vars

BufferSpec == Init /\ [][BufferNext]_vars

DateTimeSpec == Init /\ [][DateTimeNext]_vars

(***************************************************************************)
(* Fragmentation by Send                                                   *)
(***************************************************************************)
FragmentIDs == [k \in 1..Len(emitted) |-> emitted[k].fragmentID]
EmittedPayloads == [k \in 1..Len(emitted) |-> emitted[k].payload]
SendFinished == sendPc = "done" /\ emitted # <<>>

\* C1: a finished Send of fewer than 256 packets has emitted the fragment ids
\* 1, 2, ..., n-1 followed by 0 for the last packet, and a payload shorter
\* than FragmentSize went out as one packet with fragment id 0.
C1_FragmentIDs ==
    (SendFinished /\ FragmentSize > 0 /\ Len(emitted) < FragmentIDMod) =>
        /\ \A k \in 1..(Len(emitted) - 1) : FragmentIDs[k] = k
        /\ FragmentIDs[Len(emitted)] = 0
        /\ Len(origPayload) < FragmentSize => FragmentIDs = <<0>>

C1_Witness ==
    /\ SendFinished
    /\ Len(origPayload) = 5 /\ FragmentSize = 2
    /\ FragmentIDs = <<1, 2, 0>>

IsMultiple(n, fragmentSize) == fragmentSize > 0 /\ n > 0 /\ n % fragmentSize = 0

\* C2: a payload of exactly k*FragmentSize bytes (k >= 1) is emitted as
\* exactly k packets with fragment ids 1, ..., k-1, 0, none of them empty.
C2_ExactMultiple ==
    (SendFinished /\ IsMultiple(Len(origPayload), FragmentSize)) =>
        LET k == Len(origPayload) \div FragmentSize IN
        /\ Len(emitted) = k
        /\ FragmentIDs = [j \in 1..k |-> IF j < k THEN j ELSE 0]
        /\ \A j \in 1..Len(emitted) : EmittedPayloads[j] # <<>>

\* C3: every packet handed to sendPacket carries at most FragmentSize bytes,
\* and the payloads of a finished Send, concatenated in emission order, are
\* the original payload (at every point of the Send they are a prefix of it).
C3_Reassembly ==
    (sendPc \in {"loop", "sleep", "done"} /\ FragmentSize > 0) =>
        /\ \A k \in 1..Len(emitted) : Len(EmittedPayloads[k]) <= FragmentSize
        /\ Concat(EmittedPayloads)
              = Take(origPayload, Len(Concat(EmittedPayloads)))
        /\ sendPc = "done" => Concat(EmittedPayloads) = origPayload

C3_Witness ==
    /\ SendFinished
    /\ Len(origPayload) = 5 /\ FragmentSize = 2
    /\ EmittedPayloads = <<<<1, 2>>, <<3, 4>>, <<5>>>>

(***************************************************************************)
(* Dispatch of inbound datagrams                                           *)
(***************************************************************************)
\* a step in which processPacket was applied to hPacket'
ProcessStep == hIndex' = hIndex + 1

\* hPacket has been given to processPacket
Processed == hIndex > 0 /\ hPc \in {"packets", "returned"}

\* the packet failed no check before the source port check
OnlyPortChecked == Processed /\ hErr \in {"nil", "invalid source port"}

Rejected ==
    /\ hErr' # "nil"
    /\ hPc' = "returned"
    /\ delivered' = delivered
    /\ sockets' = sockets
    /\ Endpoints' = Endpoints
    /\ endpointServer' = endpointServer

\* C4: handleSocketMessage panics for no inbound datagram.
C4_NoPanic == hPc # "panic"

\* C5: a packet for a stream id without a bound endpoint is rejected with an
\* error, reaches no endpoint and leaves the endpoint map unchanged; nothing
\* is delivered by a later bind.
C5_UnboundRejected ==
    [][/\ (ProcessStep /\ hPacket'.destStreamID \notin DOMAIN Endpoints) => Rejected
       /\ Endpoints' # Endpoints => (delivered' = delivered /\ sockets' = sockets)
      ]_vars

C5_Witness ==
    /\ hPc = "returned"
    /\ hErr = "unbound endpoint"
    /\ hIndex = 2
    /\ Len(delivered) = 1
    /\ hPacket.destStreamID \notin DOMAIN Endpoints
    /\ DOMAIN Endpoints # {}

PortLimit(dialect) == IF dialect = "lite" THEN LitePortLimit ELSE LegacyPortLimit

ViolatesPortRules(p) ==
    \/ p.destStreamType # p.sourceStreamType
    \/ p.destStreamType > StreamTypeRelay
    \/ p.sourceStreamType > StreamTypeRelay
    \/ p.sourcePort > PortLimit(p.dialect)

\* C6: a packet whose stream types differ, whose stream type is above
\* StreamTypeRelay or whose source port is above its dialect's limit is
\* rejected with an error; no SocketConnection is created and no endpoint
\* sees the packet.
C6_InvalidPortsRejected ==
    [][(ProcessStep /\ ViolatesPortRules(hPacket')) => Rejected]_vars

C6_Witness ==
    /\ hPc = "returned"
    /\ hErr = "non matching stream types"
    /\ hPacket.destStreamType <= StreamTypeRelay
    /\ hPacket.sourceStreamType <= StreamTypeRelay
    /\ hPacket.sourcePort = 0
    /\ delivered = <<>>

\* C7: an otherwise valid packet is accepted exactly when its source port
\* is within the width of its dialect: 0..31 for lite, 0..15 for legacy/v1.
C7_PortWidth ==
    OnlyPortChecked =>
        (hErr = "nil" <=> hPacket.sourcePort <= PortLimit(hPacket.dialect))

\* C8 as stated: source port 32 is rejected for legacy and v1 and accepted
\* for lite.
C8_Port32LiteAccepted ==
    (OnlyPortChecked /\ hPacket.sourcePort = LitePortLimit + 1) =>
        (hErr = "nil" <=> hPacket.dialect = "lite")

\* C8 as amended: source port 32 is rejected in every dialect, lite included.
C8_Port32Rejected ==
    (Processed /\ hPacket.sourcePort = LitePortLimit + 1) => hErr # "nil"

C8_Witness ==
    /\ hPc = "returned"
    /\ hErr = "invalid source port"
    /\ hPacket.dialect = "lite"
    /\ hPacket.sourcePort = LitePortLimit + 1

\* C9: the endpoint registered under a stream id is the first one bound with
\* that id; a registered endpoint is never replaced, and the Server field of
\* an endpoint changes only when that endpoint is registered.
C9_FirstBindWins ==
    [][/\ Endpoints' = firstBound'
       /\ \A s \in DOMAIN Endpoints :
             s \in DOMAIN Endpoints' /\ Endpoints'[s] = Endpoints[s]
       /\ \A e \in EndPoints :
             endpointServer'[e] # endpointServer[e] =>
                 /\ StreamIDOf(e) \notin DOMAIN Endpoints
                 /\ Endpoints'[StreamIDOf(e)] = e
      ]_vars

\* a second endpoint was bound with stream id 1 and rejected
C9_Witness ==
    /\ 1 \in DOMAIN Endpoints
    /\ \E e \in bindCalled :
          StreamIDOf(e) = 1 /\ e # Endpoints[1] /\ ~endpointServer[e]
    /\ endpointServer[Endpoints[1]]

DialectByPrefix(pd) ==
    IF pd # <<>> /\ pd[1] = LiteMagic THEN "lite"
    ELSE IF Len(pd) >= 2 /\ Take(pd, 2) = V1Magic THEN "v1"
    ELSE "v0"

\* C10 as stated: the decoder is chosen by the leading bytes alone.
C10_PrefixOnly ==
    hPc = "detected" => hDialect = DialectByPrefix(packetData)

\* C10 as amended: first byte 0x80 selects lite only on a server with a
\* WebSocket listener; every other datagram that is decoded is decoded as v1
\* if its first two bytes are 0xEA 0xD0 and as legacy v0 otherwise.
C10_PrefixAndListener ==
    [][(hPc = "spawned" /\ hPc' = "detected") =>
          hDialect' = IF websocketServer /\ DialectByPrefix(packetData) = "lite"
                      THEN "lite"
                      ELSE IF Len(packetData) >= 2 /\ Take(packetData, 2) = V1Magic
                      THEN "v1"
                      ELSE "v0"
      ]_vars

C10_Witness ==
    /\ hPc = "detected"
    /\ ~websocketServer
    /\ packetData[1] = LiteMagic
    /\ hDialect = "v0"

(***************************************************************************)
(* The receive loop                                                        *)
(***************************************************************************)
\* C11: a failed socket read or a failed socket write is logged and the
\* receive loop goes on serving: once the socket is open, ListenUDP never
\* panics and the process never dies of a failure of the socket.
C11_LoopSurvivesFailures == udpSocket => loopPc = "serving"

\* C18: every datagram read starts one more handler, every running handler
\* sees exactly the bytes that were received for it, whatever is read into
\* the buffer afterwards, and a running handler does not keep the loop from
\* reading.
C18_PrivateCopy ==
    [][/\ \A k \in 1..Len(handlers') :
             Sees(handlers'[k], buffer') = handlers'[k].received
       /\ buffer' # buffer =>
             /\ Len(handlers') = Len(handlers) + 1
             /\ \A k \in 1..Len(handlers) :
                   Sees(handlers'[k], buffer') = Sees(handlers[k], buffer)
       /\ (Serving /\ handlers # <<>> /\ Len(handlers) < MaxHandlers) =>
             ENABLED (\E datagram \in ReadDatagrams : ReceiveDatagram(datagram))
      ]_vars

\* two handlers run at once and the buffer no longer holds the first one's bytes
C18_Witness ==
    /\ Len(handlers) = 2
    /\ handlers[1].received = <<LiteMagic>>
    /\ handlers[2].received = <<0>>
    /\ Sees(handlers[1], buffer) = <<LiteMagic>>
    /\ buffer[1] = 0

(***************************************************************************)
(* sendPacket                                                              *)
(***************************************************************************)
\* the k-th packet handed to sendRaw is the copy of the k-th packet Send
\* handed to sendPacket
Sent == 1..Len(wire)

IsReliableData(p) == p.ptype = "DATA" /\ "Reliable" \in p.flags
CarriesAck(p) == "Ack" \in p.flags \/ "MultiAck" \in p.flags

Ciphers == {"Encrypt", "UnreliableCrypto"}
Encrypted(p) == \E j \in 1..Len(p.crypto) : p.crypto[j][1] \in Ciphers

\* C13: the payload of a lite packet (version 2) is never encrypted, neither
\* by processUnreliableCrypto nor by the cipher of the sliding window; the
\* payload of an unreliable DATA packet of v0 or v1 without Ack and MultiAck
\* goes through processUnreliableCrypto and nothing else.
C13_LiteNeverEncrypted ==
    \A k \in Sent :
        /\ emitted[k].version = LiteVersion => ~Encrypted(wire[k])
        /\ (/\ emitted[k].ptype = "DATA"
            /\ "Reliable" \notin emitted[k].flags
            /\ ~CarriesAck(emitted[k])
            /\ emitted[k].version # LiteVersion) =>
              wire[k].crypto = <<<<"UnreliableCrypto">>>>

\* the packet object the k-th entry of the timeout manager refers to
ScheduledPacket(k) ==
    IF scheduled[k][1] = "shared" THEN sendPacketArg ELSE scheduled[k][2]

\* C14: sendPacket leaves the packet object it is given as it got it (the
\* fragment Send made of it, with the sequence id, session id, signature,
\* send count and sent-at time the caller gave it), and every packet
\* registered with the timeout manager keeps the payload and fragment id of
\* its fragment while Send goes on to the next fragments.
C14_CopyOnly ==
    (sendPc \in {"loop", "sleep", "done"} /\ emitted # <<>>) =>
        /\ sendPacketArg = emitted[Len(emitted)]
        /\ sendPacketArg.sequenceID = CallerSequenceID
        /\ sendPacketArg.sessionID = 0
        /\ sendPacketArg.signature = <<>> /\ sendPacketArg.crypto = <<>>
        /\ sendPacketArg.sendCount = 0 /\ sendPacketArg.sentAt = 0
        /\ \A k \in 1..Len(scheduled) :
              /\ ScheduledPacket(k).payload = emitted[k].payload
              /\ ScheduledPacket(k).fragmentID = emitted[k].fragmentID
              /\ ScheduledPacket(k).sendCount = 1

C14_Witness ==
    /\ sendPc = "done"
    /\ Len(scheduled) = 3
    /\ ScheduledPacket(1).fragmentID = 1 /\ ScheduledPacket(1).payload = <<1, 2>>
    /\ ScheduledPacket(2).fragmentID = 2 /\ ScheduledPacket(2).payload = <<3, 4>>
    /\ sendPacketArg.fragmentID = 0 /\ sendPacketArg.payload = <<5>>
    /\ sendPacketArg.sendCount = 0 /\ ScheduledPacket(3).sendCount = 1

SequenceIDs == [k \in Sent |-> wire[k].sequenceID]
Consecutive(ids) ==
    \A k \in 1..(Len(ids) - 1) : (ids[k + 1] - ids[k]) % SequenceIDMod = 1

C16_FreshSignature ==
    \A k \in Sent : wire[k].signature = calculateSignature(wire[k])

\* C17: a Send performs one delay between every two consecutive packets and
\* none after the last: n - 1 for n packets; and while it is in a delay, a
\* Send for another connection can hand its packet to sendRaw.
C17_Pacing ==
    /\ SendFinished => sleeps = Len(emitted) - 1
    /\ sendPc = "sleep" => (sleeps = Len(emitted) - 1 /\ i < fragments)
    /\ (sendPc = "loop" /\ i > 0) =>
          sleeps = IF i <= fragments THEN Len(emitted) ELSE Len(emitted) - 1
    /\ (sendPc = "sleep" /\ Len(otherWire) < MaxOtherSends) => ENABLED OtherSend

\* the other Send sent its packet while the first was in its second delay
C17_Witness ==
    /\ sendPc = "sleep"
    /\ Len(emitted) = 2 /\ sleeps = 1
    /\ otherWire = <<TRUE>>

(***************************************************************************)
(* ByteStreamIn                                                            *)
(***************************************************************************)
\* C19: the byte offset never passes the end of the data and no read
\* panics; a read that asks for more bytes than remain returns an error and
\* leaves the offset where it was, and any other read returns the bytes at
\* the offset and advances the offset by exactly the number asked for.
C19_NoReadPastEnd ==
    [][streamPc = "open" =>
          /\ streamPc' = "open"
          /\ byteOffset' <= Len(streamData')
          /\ IF readRequest' > Remaining
             THEN readErr' # "nil" /\ byteOffset' = byteOffset /\ readResult' = <<>>
             ELSE /\ readErr' = "nil"
                  /\ byteOffset' = byteOffset + readRequest'
                  /\ readResult' =
                        [j \in 1..readRequest' |-> streamData[byteOffset + j]]
      ]_vars

\* an 8-byte primitive was refused three bytes before the end of the data
C19_Witness ==
    /\ streamPc = "open"
    /\ Len(streamData) = 8 /\ byteOffset = 5
    /\ readCall = "ReadPrimitiveUInt64LE" /\ readRequest = 8
    /\ readErr = "Not enough data to read UInt64LE"

(***************************************************************************)
(* Structures                                                              *)
(***************************************************************************)
\* the same data: the same structure version and the same values of the fields
SameData(x, other) ==
    /\ x.structureVersion = other.structureVersion
    /\ IF structThis \in ResultRanges
       THEN x.Offset = other.Offset /\ x.Length = other.Length
       ELSE /\ x.StationURL = other.StationURL
            /\ x.SpecialProtocols = other.SpecialProtocols
            /\ x.StationURLSpecialProtocols = other.StationURLSpecialProtocols
            /\ x.Time = other.Time

\* C20: Equals of ResultRange and of RVConnectionData returns true exactly
\* when the other structure holds the same data, and x.Equals(x.Copy()) is
\* true for every x.
C20_EqualsSameData ==
    /\ structPc = "Equals" => (structResult <=> SameData(structThis, structOther))
    /\ structPc = "Copy" => structResult

(***************************************************************************)
(* QUUID strings                                                           *)
(***************************************************************************)
\* five sections of 4, 2, 2, 2 and 6 bytes in lowercase hex
WellFormedUUID(str) ==
    /\ Len(str) = 36
    /\ \A k \in 1..36 : IF k \in {9, 14, 19, 24} THEN str[k] = "-"
                                                 ELSE IsHex(str[k])

\* C21: for every well-formed lowercase UUID string, FromString returns no
\* error and stores 16 bytes in Data, and GetStringValue afterwards returns
\* the same string
C21_RoundTrip ==
    (quuidPc = "GetStringValue" /\ WellFormedUUID(uuidArg)) =>
        /\ quuidErr = "nil"
        /\ Len(quuidData) = 16
        /\ quuidString = uuidArg

(***************************************************************************)
(* Buffer serialization                                                    *)
(***************************************************************************)
\* C22: WriteTo writes the length of the Buffer in four bytes, the lowest
\* first, and then its bytes; ExtractFrom on a readable that starts with this
\* output yields a Buffer equal to the written one and consumes exactly
\* 4 + len(b) bytes; ExtractFrom on a readable that ends before it returns an
\* error and leaves the destination Buffer as it was.
C22_BufferRoundTrip ==
    /\ bufferPc # "none" =>
          /\ Len(writable) = 4 + Len(bufferArg)
          /\ writable[1] + 256 * (writable[2] + 256 * (writable[3]
                + 256 * writable[4])) = Len(bufferArg)
          /\ \A k \in 1..Len(bufferArg) : writable[4 + k] = bufferArg[k]
    /\ (bufferPc = "ExtractFrom" /\ cut = 0) =>
          /\ extractErr = "nil"
          /\ BufferEquals(dest, bufferArg)
          /\ readableOffset = 4 + Len(bufferArg)
    /\ (bufferPc = "ExtractFrom" /\ cut > 0) =>
          /\ extractErr # "nil"
          /\ dest = destBefore

\* a Buffer of two bytes came back from a readable that holds one byte
\* more, into a destination that held something else
C22_Witness ==
    /\ bufferPc = "ExtractFrom"
    /\ cut = 0
    /\ Len(bufferArg) = 2
    /\ Len(readable) = 7
    /\ destBefore = <<9>>
    /\ dest = bufferArg
    /\ readableOffset = 6

(***************************************************************************)
(* The sources of sequence ids                                             *)
(***************************************************************************)
\* C23: every sendPacket draws the sequence id from one source and leaves
\* the others alone: with Ack or MultiAck the packet keeps its sequence id
\* and no counter moves; else a Reliable packet takes the next id of the
\* sliding window of its substream; else a DATA packet takes the next id of
\* the unreliable counter; else a PING packet takes the next id of the ping
\* counter; else the packet gets sequence id 0 and no counter moves.
C23_OneSource ==
    [][Len(wire') = Len(wire) + 1 =>
          LET p == emitted'[Len(emitted')]
              out == wire'[Len(wire')]
              otherWindows ==
                  \A s \in Substreams \ {p.substreamID} :
                      slidingWindows'[s] = slidingWindows[s]
          IN  IF CarriesAck(p)
              THEN /\ out.sequenceID = p.sequenceID
                   /\ UNCHANGED <<slidingWindows, unreliableCounter, pingCounter>>
              ELSE IF "Reliable" \in p.flags
              THEN /\ out.sequenceID =
                          (slidingWindows[p.substreamID] + 1) % SequenceIDMod
                   /\ slidingWindows'[p.substreamID] = out.sequenceID
                   /\ otherWindows
                   /\ UNCHANGED <<unreliableCounter, pingCounter>>
              ELSE IF p.ptype = "DATA"
              THEN /\ out.sequenceID = (unreliableCounter + 1) % SequenceIDMod
                   /\ unreliableCounter' = out.sequenceID
                   /\ UNCHANGED <<slidingWindows, pingCounter>>
              ELSE IF p.ptype = "PING"
              THEN /\ out.sequenceID = (pingCounter + 1) % SequenceIDMod
                   /\ pingCounter' = out.sequenceID
                   /\ UNCHANGED <<slidingWindows, unreliableCounter>>
              ELSE /\ out.sequenceID = 0
                   /\ UNCHANGED <<slidingWindows, unreliableCounter, pingCounter>>
      ]_vars

\* three fragments of a packet with Reliable and Ack went out with the
\* caller's sequence id, and no counter has moved
C23_Witness ==
    /\ sendPc = "done"
    /\ Len(wire) = 3
    /\ emitted[1].flags = {"Reliable", "Ack"}
    /\ \A k \in 1..3 : wire[k].sequenceID = CallerSequenceID
    /\ \A s \in Substreams : slidingWindows[s] = 0
    /\ unreliableCounter = 0 /\ pingCounter = 0

(***************************************************************************)
(* Registration with the timeout manager                                   *)
(***************************************************************************)
\* the positions in calls of the calls with this name for the k-th packet
CallsAt(name, k) == {j \in 1..Len(calls) : calls[j][1] = name /\ calls[j][2] = k}

\* C24: a packet is registered with the timeout manager exactly if it has
\* the Reliable and the NeedsAck flag, on the sliding window of its own
\* substream, once, and before its bytes are handed to sendRaw.
C24_ScheduledBeforeSent ==
    \A k \in 1..Len(wire) :
        /\ Cardinality(CallsAt("sendRaw", k)) = 1
        /\ IF {"Reliable", "NeedsAck"} \subseteq wire[k].flags
           THEN /\ Cardinality(CallsAt("SchedulePacketTimeout", k)) = 1
                /\ \A j \in CallsAt("SchedulePacketTimeout", k) :
                      /\ calls[j][3] = wire[k].substreamID
                      /\ \A r \in CallsAt("sendRaw", k) : j < r
                /\ \E n \in 1..Len(scheduled) : scheduled[n][2] = wire[k]
           ELSE /\ CallsAt("SchedulePacketTimeout", k) = {}
                /\ \A n \in 1..Len(scheduled) : scheduled[n][2] # wire[k]

\* two fragments of a packet with Reliable and NeedsAck on substream 1 were
\* each registered and then sent
C24_Witness ==
    /\ sendPc = "done"
    /\ Len(wire) = 2
    /\ wire[1].flags = {"Reliable", "NeedsAck"}
    /\ wire[1].substreamID = 1
    /\ Len(scheduled) = 2
    /\ Len(calls) = 4
    /\ calls[3][1] = "SchedulePacketTimeout" /\ calls[4][1] = "sendRaw"

(***************************************************************************)
(* The packets of one datagram                                             *)
(***************************************************************************)
\* C25: the packets of a datagram are given to processPacket in their order
\* and each accepted one is delivered before the next is looked at; the
\* first rejected packet makes handleSocketMessage return its error, with
\* the packets before it delivered and no packet after it processed.
C25_FirstRejectionEnds ==
    [][/\ ProcessStep =>
             /\ hIndex = Len(delivered)
             /\ IF hErr' = "nil"
                THEN delivered' = Append(delivered, hIndex') /\ hPc' = "packets"
                ELSE delivered' = delivered /\ hPc' = "returned"
       /\ hErr # "nil" =>
             /\ hPc = "returned"
             /\ ~ProcessStep
             /\ delivered' = delivered \/ hPc' = "idle"
      ]_vars

\* the first of two packets was rejected: nothing was delivered and the
\* handler has returned the error without looking at the second
C25_Witness ==
    /\ hPc = "returned"
    /\ hErr # "nil"
    /\ hCount = 2
    /\ hIndex = 1
    /\ delivered = <<>>

(***************************************************************************)
(* Errors of the compression and encryption algorithms                     *)
(***************************************************************************)
\* the reliable DATA packets without Ack among the first k packets sent
Transformed(k) == {j \in 1..k : IsReliableData(emitted[j]) /\ ~CarriesAck(emitted[j])}

\* what the payload of such a packet has become
ReturnedByLastStep(window) ==
    IF "Encrypt" \in failing THEN <<<<"Encrypt failed", window>>>>
    ELSE IF "Compress" \in failing
    THEN <<<<"Compress failed", window>>, <<"Encrypt", window>>>>
    ELSE <<<<"Compress", window>>, <<"Encrypt", window>>>>

\* C26: with a failing compression or encryption, every sendPacket still
\* hands its packet to sendRaw, signed, with the payload the last step
\* returned, with a sequence id taken from the sliding window, and
\* registered with the timeout manager if it has Reliable and NeedsAck; each
\* failed step has only been logged.
C26_ErrorsOnlyLogged ==
    /\ Len(wire) = Len(emitted)
    /\ sendPc # "panic" \/ FragmentSize = 0
    /\ \A k \in 1..Len(wire) :
          /\ wire[k].signature # <<>>
          /\ wire[k].sendCount = 1
          /\ \E j \in 1..Len(calls) : calls[j][1] = "sendRaw" /\ calls[j][2] = k
          /\ NeedsTimeout(emitted[k]) =>
                \E n \in 1..Len(scheduled) : scheduled[n][2] = wire[k]
          /\ k \in Transformed(k) =>
                /\ wire[k].crypto = ReturnedByLastStep(emitted[k].substreamID)
                /\ wire[k].sequenceID = Cardinality(Transformed(k))
    /\ Len(logged) = Cardinality(failing) * Cardinality(Transformed(Len(emitted)))

\* both algorithms fail and three fragments of a packet with Reliable and
\* NeedsAck have nevertheless gone out and are registered
C26_Witness ==
    /\ sendPc = "done"
    /\ failing = {"Compress", "Encrypt"}
    /\ Len(wire) = 3
    /\ emitted[1].flags = {"Reliable", "NeedsAck"}
    /\ Len(scheduled) = 3
    /\ Len(logged) = 6
    /\ wire[3].sequenceID = 3

(***************************************************************************)
(* DateTime packing                                                        *)
(***************************************************************************)
\* the fields in the order of their bits: second, minute, hour, day, month,
\* year; the year has no width
InWidth(f) == f = 6 \/ made[f] < FieldWidths[f]

LowerInWidth(f) == \A l \in 1..(f - 1) : InWidth(l)

C28_ZeroOnlyFinal ==
    \A k \in 1..(Len(emitted) - 1) : emitted[k].fragmentID # 0

(***************************************************************************)
(* Concurrent binds                                                        *)
(***************************************************************************)
\* C29: of the BindPRUDPEndPoint calls for one stream id that run at the
\* same time exactly one registers its endpoint and the others are
\* rejected, and an endpoint stored under a stream id is never replaced.
C29_NeverReplaced ==
    [][/\ \A s \in DOMAIN Endpoints :
             s \in DOMAIN Endpoints' /\ Endpoints'[s] = Endpoints[s]
       /\ \A g \in Binders, h \in Binders :
             (/\ g # h
              /\ bindPc'[g] = "bound" /\ bindPc'[h] = "bound") =>
                 StreamIDOf(bindArg'[g]) # StreamIDOf(bindArg'[h])
      ]_vars

(***************************************************************************)
(* Concurrent Sends                                                        *)
(***************************************************************************)
\* the positions in wire of the packets of the first Send
FirstSent == (1..Len(wire)) \ secondSent

\* C30: when two Send calls fragment reliable payloads on the same substream
\* of one connection at the same time, no fragment of one message has a
\* sequence id between the sequence ids of two fragments of the other.
C30_ContiguousRuns ==
    \A mine \in {FirstSent, secondSent} :
        \A a \in mine, b \in mine, other \in (1..Len(wire)) \ mine :
            wire[a].substreamID = wire[other].substreamID =>
                ~(/\ wire[a].sequenceID < wire[other].sequenceID
                  /\ wire[other].sequenceID < wire[b].sequenceID)

====
